---- MODULE Spec2Model ----
(***************************************************************************)
(* A model of the Magnus remote API client (src/src/api.ts, class Api):    *)
(* the process-wide cookie cache, login, session acquisition, the six      *)
(* resource operations with their response classification, getFileStat's   *)
(* HEAD/GET fallback and the folder upload guards.                          *)
(*                                                                          *)
(* JavaScript strings that the code inspects character by character        *)
(* (cookies, the content-length header) are sequences of one-character     *)
(* strings.  The JavaScript values undefined and null of a string-typed    *)
(* slot are the one-element sequences Undefined and Null.                  *)
(*                                                                          *)
(* Every asynchronous call occupies one slot of `call`; a step of the      *)
(* model is the code that runs between two awaits of one call.             *)
(***************************************************************************)
EXTENDS Integers, Sequences, FiniteSets, TLC

VARIABLES authenticationCookies, secrets, call,
          knownServers, treeNodeTable, parentItemLookup, iconData, iconFetches,
          handler, commands, sharedArrays, given, commandsRun, jsonValue, sessions

\* The state of the commands: the running commands, which of them hold the
\* same array object as globalState, the URLs that were given to addServer
\* (when typed and again when the command appends them) and not removed
\* since, and the number of commands the person has run; with them the
\* JSON value that jsonParse is reviving and the sessions the servers hold.
commandVars == <<commands, sharedArrays, given, commandsRun, jsonValue, sessions>>

\* The state of the tree data provider and of its icon cache.
providerVars ==
    <<knownServers, treeNodeTable, parentItemLookup, iconData, iconFetches, handler,
      commandVars>>

vars == <<authenticationCookies, secrets, call, providerVars>>

(***************************************************************************)
(* Bounds                                                                   *)
(***************************************************************************)
MaxCalls == 2
MaxDepth == 1

Calls == 1..MaxCalls

(***************************************************************************)
(* JavaScript values                                                        *)
(***************************************************************************)
Undefined == <<"undefined">>
Null == <<"null">>

\* JavaScript truthiness of a string-typed slot.
Truthy(s) == s # Undefined /\ s # Null /\ s # <<>>

\* String.prototype.startsWith
StartsWith(s, prefix) ==
    /\ Len(s) >= Len(prefix)
    /\ SubSeq(s, 1, Len(prefix)) = prefix

\* s.split(";")[0]: the text of s up to its first ";" (all of s without one).
RECURSIVE SplitFirst(_, _)
SplitFirst(s, sep) ==
    IF s = <<>> THEN <<>>
    ELSE IF Head(s) = sep THEN <<>>
    ELSE <<Head(s)>> \o SplitFirst(Tail(s), sep)

\* Array.prototype.find with the predicate c => c.startsWith(prefix);
\* Undefined when no element matches.
RECURSIVE FindStartsWith(_, _)
FindStartsWith(arr, prefix) ==
    IF arr = <<>> THEN Undefined
    ELSE IF StartsWith(Head(arr), prefix) THEN Head(arr)
    ELSE FindStartsWith(Tail(arr), prefix)

(***************************************************************************)
(* Servers, URLs, credentials                                               *)
(***************************************************************************)
\* A server base URL is `${scheme}://${authority}`.
ServerA == [scheme |-> "https", authority |-> "a.test"]
ServerB == [scheme |-> "http", authority |-> "b.test"]
Servers == {ServerA, ServerB}

Url(server, path) ==
    [scheme |-> server.scheme, authority |-> server.authority, path |-> path]

NoUrl == [scheme |-> "", authority |-> "", path |-> <<>>]

getApiUrl(serverUrl, pathAndQuery) ==
    [scheme |-> serverUrl.scheme, authority |-> serverUrl.authority,
     path |-> pathAndQuery]

getServerBaseUrlOfFirstServer(url) == ServerA

getServerBaseUrl(url) ==
    [scheme |-> url.scheme, authority |-> url.authority]

LoginPath == <<"api", "Auth", "Login">>
GetServerPath == <<"api", "TriumphTech", "Magnus", "GetServer">>
RootItemsPath == <<"api", "TriumphTech", "Magnus", "GetTreeItems", "root">>
FilePath == <<"f">>

\* What the secret storage holds under a server URL: nothing, text that is
\* not JSON, or the JSON of a username/password pair.
SecretAbsent == [kind |-> "absent", username |-> "", password |-> ""]
SecretCorrupt == [kind |-> "corrupt", username |-> "", password |-> ""]
SecretStored == [kind |-> "json", username |-> "u1", password |-> "p1"]
SecretValues == {SecretAbsent, SecretCorrupt, SecretStored}

NullCredentials == [username |-> "null", password |-> "null"]
NoArguments == [username |-> "undefined", password |-> "undefined"]

\* Secrets.getCredentials: null for a missing or unparsable entry.
getCredentials(secret) ==
    IF secret.kind = "json"
    THEN [username |-> secret.username, password |-> secret.password]
    ELSE NullCredentials

(***************************************************************************)
(* The login response                                                       *)
(***************************************************************************)
RockPrefix == <<".", "R", "O", "C", "K", "=">>

\* ".ROCK=a;p"
CookieA == <<".", "R", "O", "C", "K", "=", "a", ";", "p">>
\* ".ROCK=b"
CookieB == <<".", "R", "O", "C", "K", "=", "b">>
\* "s=1;.ROCK=z"
CookieOther == <<"s", "=", "1", ";", ".", "R", "O", "C", "K", "=", "z">>
\* ".ROCKx=a"
CookieNear == <<".", "R", "O", "C", "K", "x", "=", "a">>

NoHeader == <<Undefined>>

SetCookieHeaders ==
    {NoHeader, <<>>, <<CookieA>>, <<CookieOther>>, <<CookieNear>>,
     <<CookieOther, CookieB>>, <<CookieB, CookieA>>}

LoginStatuses == {200, 204, 201, 401, 500}

requestAuthorizationCookieAny2xx(status, setCookie) ==
    IF status < 200 \/ status >= 300 THEN Null
    ELSE IF setCookie = NoHeader THEN Null
    ELSE LET cookie == FindStartsWith(setCookie, RockPrefix)
         IN IF ~Truthy(cookie) THEN Null
            ELSE SplitFirst(cookie, ";")

\* Api.requestAuthorizationCookie after the response has arrived.
requestAuthorizationCookie(status, setCookie) ==
    IF status # 200 /\ status # 204 THEN Null
    ELSE IF setCookie = NoHeader THEN Null
    ELSE LET cookie == FindStartsWith(setCookie, RockPrefix)
         IN IF ~Truthy(cookie) THEN Null
            ELSE SplitFirst(cookie, ";")

(***************************************************************************)
(* Response bodies and their decoding                                       *)
(***************************************************************************)
\* A decoded JavaScript value: its type tag and its text.
Js(t, v) == [t |-> t, v |-> v]

JsUndefined == Js("undefined", "")

\* JavaScript truthiness of a decoded value (the test `!result.data`).
JsTruthy(x) ==
    CASE x.t = "undefined" -> FALSE
      [] x.t = "null" -> FALSE
      [] x.t = "boolean" -> x.v = "true"
      [] x.t = "number" -> x.v # "0"
      [] x.t = "string" -> x.v # ""
      [] OTHER -> TRUE

\* The response texts a server may send.
RawBodies == {"", "null", "false", "0", "\"\"", "{}", "[]", "<html>"}

\* The listings a server may send: arrays of one item descriptor; a file, a
\* folder with every capability URL, a file without any and without a uri.
ListingFile == "[{\"Uri\":\"/api/TriumphTech/Magnus/f\"}]"
ListingCapable == "[{\"Uri\":\"/api/TriumphTech/Magnus/c\",\"IsFolder\":true,\"BuildUri\":\"/b\",\"DeleteUri\":\"/d\",\"NewFileUri\":\"/nf\",\"NewFolderUri\":\"/nd\",\"UploadFileUri\":\"/uf\",\"UploadFolderUri\":\"/ud\"}]"
ListingBare == "[{\"DisplayName\":\"n\"}]"
ListingTexts == {ListingFile, ListingCapable, ListingBare}

\* Root listings of several items: a folder and a file; a path outside the
\* resource API, an item without a URI and a file; a file and an item
\* whose URI is a whole URL.
ListingRoot == "[{\"Uri\":\"/api/TriumphTech/Magnus/c\",\"IsFolder\":true},{\"Uri\":\"/api/TriumphTech/Magnus/f\"}]"
ListingMixed == "[{\"Uri\":\"/x\"},{\"DisplayName\":\"n\"},{\"Uri\":\"/api/TriumphTech/Magnus/f\"}]"
ListingAbsolute == "[{\"Uri\":\"/api/TriumphTech/Magnus/f\"},{\"Uri\":\"ttmagnus://b.test/x\"}]"
RootListingTexts == {ListingRoot, ListingMixed, ListingAbsolute}

\* The action responses a server may send.
ActionDone == "{\"ActionSuccessful\":true,\"ResponseMessage\":\"done\"}"
ActionSilent == "{\"ActionSuccessful\":true}"
ActionDiskFull == "{\"ActionSuccessful\":false,\"ResponseMessage\":\"disk full\"}"
ActionFailed == "{\"ActionSuccessful\":false}"
ActionTexts == {ActionDone, ActionSilent, ActionDiskFull, ActionFailed}

\* The server descriptors a server may send.
DescriptorPlain == "{\"DisplayName\":\"Rock\"}"
DescriptorCapable == "{\"Tooltip\":\"tip\",\"BuildUri\":\"/b\",\"UploadFileUri\":\"/uf\",\"UploadFolderUri\":\"/ud\"}"
DescriptorTexts == {DescriptorPlain, DescriptorCapable}

\* jsonParse: JSON.parse on the texts of RawBodies and on the listings,
\* action responses and server descriptors; ok is FALSE when JSON.parse
\* throws.
jsonParse(json) ==
    CASE json \in ListingTexts \cup RootListingTexts ->
            [ok |-> TRUE, value |-> Js("array", json)]
      [] json \in ActionTexts \cup DescriptorTexts ->
            [ok |-> TRUE, value |-> Js("object", json)]
      [] json = "null" -> [ok |-> TRUE, value |-> Js("null", "")]
      [] json = "false" -> [ok |-> TRUE, value |-> Js("boolean", "false")]
      [] json = "0" -> [ok |-> TRUE, value |-> Js("number", "0")]
      [] json = "\"\"" -> [ok |-> TRUE, value |-> Js("string", "")]
      [] json = "{}" -> [ok |-> TRUE, value |-> Js("object", "{}")]
      [] json = "[]" -> [ok |-> TRUE, value |-> Js("array", "[]")]
      [] OTHER -> [ok |-> FALSE, value |-> JsUndefined]

\* The transformResponse of the shared Axios instance.  With responseType
\* "arraybuffer" the data is a byte buffer, not a string, and is passed
\* through untouched.
transformResponse(responseType, raw) ==
    IF responseType = "arraybuffer" THEN Js("buffer", raw)
    ELSE IF raw # ""
         THEN LET parsed == jsonParse(raw)
              IN IF parsed.ok THEN parsed.value ELSE Js("string", raw)
         ELSE Js("string", raw)

ResourceStatuses == {200, 204, 299, 300, 401, 403, 404, 405, 500}

(***************************************************************************)
(* Results                                                                  *)
(***************************************************************************)
UnableToAuthorize == "Unable to authorize with the server."
NotFound == "Requested resource was not found."
AccessDenied == "Server has denied you access to this resource."
UnexpectedResponse == "Unexpected response received from server."
NetworkError == "Network Error"

NoStat == [size |-> 0, ctime |-> "", mtime |-> "", readOnly |-> FALSE]

NoResult == [kind |-> "none", message |-> "", data |-> JsUndefined, stat |-> NoStat]
Throw(message) == [NoResult EXCEPT !.kind = "error", !.message = message]
ReturnData(data) == [NoResult EXCEPT !.kind = "value", !.data = data]
ReturnStat(stat) == [NoResult EXCEPT !.kind = "value", !.stat = stat]
ReturnBoolean(b) == [NoResult EXCEPT !.kind = IF b THEN "true" ELSE "false"]

\* The status/body tests that follow the request in each operation, in the
\* order the operation makes them.
getServerDescriptorResult(status, data) ==
    IF status = 403 THEN Throw(AccessDenied)
    ELSE IF status = 404 THEN Throw(NotFound)
    ELSE IF status < 200 \/ status >= 300 \/ ~JsTruthy(data)
         THEN Throw(UnexpectedResponse)
    ELSE ReturnData(data)

getChildItemsResultRangeFirst(status, data) ==
    IF status < 200 \/ status >= 300 \/ ~JsTruthy(data)
    THEN Throw(UnexpectedResponse)
    ELSE IF status = 403 THEN Throw(AccessDenied)
    ELSE IF status = 404 THEN Throw(NotFound)
    ELSE ReturnData(data)

getChildItemsResult(status, data) ==
    IF status = 403 THEN Throw(AccessDenied)
    ELSE IF status = 404 THEN Throw(NotFound)
    ELSE IF status < 200 \/ status >= 300 \/ ~JsTruthy(data)
         THEN Throw(UnexpectedResponse)
    ELSE ReturnData(data)

getFileContentResult(status, data) ==
    IF status = 404 THEN Throw(NotFound)
    ELSE IF status = 403 THEN Throw(AccessDenied)
    ELSE IF status < 200 \/ status >= 300 \/ ~JsTruthy(data)
         THEN Throw(UnexpectedResponse)
    ELSE ReturnData(data)

updateFileContentResult(status, data) ==
    IF status = 404 THEN Throw(NotFound)
    ELSE IF status = 403 THEN Throw(AccessDenied)
    ELSE IF status < 200 \/ status >= 300 \/ ~JsTruthy(data)
         THEN Throw(UnexpectedResponse)
    ELSE ReturnData(JsUndefined)

actionUrlResult(status, data) ==
    IF status = 404 THEN Throw(NotFound)
    ELSE IF status = 403 THEN Throw(AccessDenied)
    ELSE IF status < 200 \/ status >= 300 \/ ~JsTruthy(data)
         THEN Throw(UnexpectedResponse)
    ELSE ReturnData(data)

(***************************************************************************)
(* getFileStat: header parsing and LightFileStat                            *)
(***************************************************************************)
Digits == <<"0", "1", "2", "3", "4", "5", "6", "7", "8", "9">>

IsDigit(ch) == \E i \in 1..10 : Digits[i] = ch
DigitValue(ch) == (CHOOSE i \in 1..10 : Digits[i] = ch) - 1

NaN == [nan |-> TRUE, n |-> 0]
Number(n) == [nan |-> FALSE, n |-> n]

\* The value of the longest prefix of digits of s, continuing from acc.
RECURSIVE ParseDigits(_, _)
ParseDigits(s, acc) ==
    IF s = <<>> \/ ~IsDigit(Head(s)) THEN acc
    ELSE ParseDigits(Tail(s), acc * 10 + DigitValue(Head(s)))

RECURSIVE SkipSpaces(_)
SkipSpaces(s) ==
    IF s # <<>> /\ Head(s) = " " THEN SkipSpaces(Tail(s)) ELSE s

\* parseInt(s) in radix 10: undefined converts to the text "undefined";
\* leading blanks are skipped, a sign is accepted, then the longest prefix
\* of digits is read; NaN when there is no digit.
parseInt(s) ==
    LET t == SkipSpaces(s)
        negative == t # <<>> /\ Head(t) = "-"
        u == IF t # <<>> /\ Head(t) \in {"-", "+"} THEN Tail(t) ELSE t
    IN IF s = Undefined \/ u = <<>> \/ ~IsDigit(Head(u)) THEN NaN
       ELSE Number(IF negative THEN 0 - ParseDigits(u, 0) ELSE ParseDigits(u, 0))

ContentLengths ==
    {Undefined, <<>>, <<"0">>, <<"7">>, <<"4", "2">>, <<"a", "b">>,
     <<"1", "2", "k">>, <<" ", "5">>}

\* The date header: absent, empty, a well-formed date, or text that
\* Date.parse does not understand.
DateHeaders == {"undefined", "", "Sun, 01 Nov 2026 00:00:00 GMT", "yesterday"}

DateParse(d) ==
    IF d = "Sun, 01 Nov 2026 00:00:00 GMT" THEN "1793491200000" ELSE "NaN"

\* LightFileStat constructor; "now" stands for the value of Date.now().
LightFileStat(fileSize, modifiedDateTime, createdDateTime, isReadOnly) ==
    [size |-> fileSize,
     ctime |-> IF createdDateTime \in {"undefined", ""} THEN "now"
               ELSE IF DateParse(createdDateTime) = "NaN" THEN "now"
               ELSE DateParse(createdDateTime),
     mtime |-> IF modifiedDateTime \in {"undefined", ""} THEN "now"
               ELSE IF DateParse(modifiedDateTime) = "NaN" THEN "now"
               ELSE DateParse(modifiedDateTime),
     readOnly |-> isReadOnly]

ReadOnlyHeaders == {"undefined", "true", "false"}

NoHeaders == [contentLength |-> Undefined, date |-> "undefined", readOnly |-> "undefined"]

\* getFileStat after its last response has arrived.
getFileStatResult(status, headers) ==
    IF status = 404 THEN Throw(NotFound)
    ELSE IF status = 403 THEN Throw(AccessDenied)
    ELSE IF status < 200 \/ status >= 300 THEN Throw(UnexpectedResponse)
    ELSE LET date == headers.date
             fileSize == parseInt(headers.contentLength)
             isReadOnly == headers.readOnly = "true"
         IN ReturnStat(LightFileStat(IF fileSize.nan THEN 0 ELSE fileSize.n,
                                     date, date, isReadOnly))

(***************************************************************************)
(* Calls                                                                    *)
(***************************************************************************)
Operations ==
    {"getServerDescriptor", "getChildItems", "getFileStat", "getFileContent",
     "updateFileContent", "actionUrl"}

NoLoginResponse == [status |-> 0, setCookie |-> NoHeader]
NoResponse == [status |-> 0, raw |-> "", data |-> JsUndefined, headers |-> NoHeaders]

\* The locals of one asynchronous call and the requests it has sent:
\*   pc             where the call is suspended
\*   serverUrl      the key under which the call looks up and stores the cookie
\*   method, url    the resource request of the operation
\*   username, password   the arguments of login
\*   cached         TRUE when getAuthorizationCookie found a cached cookie
\*   logins         the number of times the call has invoked login
\*   loginRequests  the login requests the call has sent
\*   loginResponse  the response to the login request (status 0: none,
\*                  status -1: the request failed without a response)
\*   loginResult    what login returned: "none", "true", "false", or "throw"
\*                  when an exception left login
\*   cookie         the local `cookie` of the operation
\*   requests       the resource requests the call has sent
\*   response       the last resource response
\*   result         what the call returned or threw
\*   fileCount, totalSize   the counters of uploadFolderUrl
\*   depth          the number of appendDirectory calls below the first one
\*   formData       the number of files appended to the form
IdleCall ==
    [pc |-> "idle", op |-> "none", serverUrl |-> ServerA, method |-> "",
     url |-> NoUrl, username |-> "undefined", password |-> "undefined",
     cached |-> FALSE, logins |-> 0, loginRequests |-> <<>>,
     loginResponse |-> NoLoginResponse, loginResult |-> "none",
     cookie |-> Undefined, requests |-> <<>>, response |-> NoResponse,
     result |-> NoResult,
     fileCount |-> 0, totalSize |-> 0, depth |-> 0, formData |-> 0]

\* The first request method of each operation.
FirstMethod(op, method) ==
    CASE op \in {"getServerDescriptor", "getChildItems", "getFileContent"} -> "GET"
      [] op = "getFileStat" -> "HEAD"
      [] op = "updateFileContent" -> "POST"
      [] OTHER -> method

ResponseType(op) ==
    IF op \in {"getFileContent", "updateFileContent"} THEN "arraybuffer" ELSE "json"

SendRequestWithoutCheck(rec, cookie) ==
    [rec EXCEPT !.pc = "request", !.cookie = cookie,
                !.requests = Append(@, [method |-> FirstMethod(rec.op, rec.method),
                                        url |-> rec.url, cookie |-> cookie])]

\* The part of an operation between the return of getAuthorizationCookie
\* and the await of its first request: throw when the cookie is null,
\* otherwise send the request with the cookie in the Cookie header.
SendRequest(rec, cookie) ==
    IF cookie = Null
    THEN [rec EXCEPT !.pc = "done", !.cookie = cookie,
                     !.result = Throw(UnableToAuthorize)]
    ELSE [rec EXCEPT !.pc = "request", !.cookie = cookie,
                     !.requests = Append(@, [method |-> FirstMethod(rec.op, rec.method),
                                             url |-> rec.url, cookie |-> cookie])]

\* login up to its first await: with both arguments given the login request
\* is sent at once, otherwise the stored credentials are read first.
BeginLogin(rec) ==
    IF rec.username = "undefined" \/ rec.password = "undefined"
    THEN [rec EXCEPT !.pc = "credentials", !.logins = @ + 1]
    ELSE [rec EXCEPT !.pc = "loginRequest", !.logins = @ + 1,
                     !.loginRequests = Append(@, [url |-> getApiUrl(rec.serverUrl, LoginPath),
                                                  username |-> rec.username,
                                                  password |-> rec.password])]

\* login returns (or, without its catch, throws): an operation waits for it
\* in getAuthorizationCookie, a direct call of login is complete.
EndLogin(rec, outcome) ==
    IF rec.op = "login"
    THEN [rec EXCEPT !.pc = "done", !.loginResult = outcome,
                     !.result = IF outcome = "throw" THEN Throw(NetworkError)
                                ELSE ReturnBoolean(outcome = "true")]
    ELSE [rec EXCEPT !.pc = "loginReturn", !.loginResult = outcome]

loginCatchRethrows == "throw"

\* The catch block of login.
loginCatch == "false"

getAuthorizationCookieIgnoresCache(rec) == BeginLogin(rec)

\* getAuthorizationCookie up to its first await.
getAuthorizationCookie(rec) ==
    IF Truthy(authenticationCookies[rec.serverUrl])
    THEN SendRequest([rec EXCEPT !.cached = TRUE], authenticationCookies[rec.serverUrl])
    ELSE BeginLogin(rec)

NoOtherCall(c) == \A d \in Calls \ {c} : call[d].pc = "idle"

\* A resource operation is called: op on the server, with the request URL
\* and, for actionUrl, the method the caller chose.
Operation(c, op, server, url, method) ==
    /\ call[c].pc = "idle"
    /\ call' = [call EXCEPT ![c] =
                  getAuthorizationCookie([IdleCall EXCEPT !.op = op, !.serverUrl = server,
                                                          !.url = url, !.method = method])]
    /\ UNCHANGED <<authenticationCookies, secrets>>

ChildItemsPathAsGiven(absolutePath) == absolutePath

\* getChildItems substitutes the root listing endpoint for a missing path.
ChildItemsPath(absolutePath) ==
    IF absolutePath = <<>> THEN RootItemsPath ELSE absolutePath

CallOperation(c, servers) ==
    \E server \in servers :
        \/ Operation(c, "getServerDescriptor", server, getApiUrl(server, GetServerPath), "")
        \/ \E absolutePath \in {<<>>, FilePath} :
              Operation(c, "getChildItems", server,
                        getApiUrl(server, ChildItemsPath(absolutePath)), "")
        \/ \E op \in {"getFileStat", "getFileContent", "updateFileContent"} :
              Operation(c, op, getServerBaseUrl(Url(server, FilePath)),
                        Url(server, FilePath), "")
        \/ \E method \in {"POST", "DELETE"} :
              Operation(c, "actionUrl", getServerBaseUrl(Url(server, FilePath)),
                        Url(server, FilePath), method)

\* login is called directly, with or without a username and a password.
CallLogin(c) ==
    /\ call[c].pc = "idle"
    /\ \E server \in Servers, username \in {"undefined", "u2"}, password \in {"undefined", "p2"} :
          call' = [call EXCEPT ![c] =
                     BeginLogin([IdleCall EXCEPT !.op = "login", !.serverUrl = server,
                                                 !.username = username,
                                                 !.password = password])]
    /\ UNCHANGED <<authenticationCookies, secrets>>

\* secrets.getCredentials settles: it fails, finds nothing usable, or yields
\* the credentials with which the login request is sent.
ReadCredentials(c) ==
    /\ call[c].pc = "credentials"
    /\ \/ call' = [call EXCEPT ![c] = EndLogin(@, loginCatch)]
       \/ LET credentials == getCredentials(secrets[call[c].serverUrl])
          IN call' = [call EXCEPT ![c] =
                        IF credentials = NullCredentials
                        THEN EndLogin(@, "false")
                        ELSE [@ EXCEPT !.pc = "loginRequest",
                                       !.loginRequests =
                                           Append(@, [url |-> getApiUrl(call[c].serverUrl, LoginPath),
                                                      username |-> credentials.username,
                                                      password |-> credentials.password])]]
    /\ UNCHANGED <<authenticationCookies, secrets>>

\* The login request settles without a response (timeout, connection error).
LoginFails(c) ==
    /\ call[c].pc = "loginRequest"
    /\ call' = [call EXCEPT ![c] =
                  EndLogin([@ EXCEPT !.loginResponse = [NoLoginResponse EXCEPT !.status = -1]],
                           loginCatch)]
    /\ UNCHANGED <<authenticationCookies, secrets>>

LoginRespondsStoresNull(c, statuses, headers) ==
    /\ call[c].pc = "loginRequest"
    /\ \E status \in statuses, setCookie \in headers :
          LET cookie == requestAuthorizationCookie(status, setCookie)
              rec == [call[c] EXCEPT !.loginResponse =
                                         [status |-> status, setCookie |-> setCookie]]
          IN /\ authenticationCookies' =
                    [authenticationCookies EXCEPT ![call[c].serverUrl] = cookie]
             /\ call' = [call EXCEPT ![c] =
                           EndLogin(rec, IF cookie = Null THEN "false" ELSE "true")]
    /\ UNCHANGED secrets

\* The login response arrives: the rest of requestAuthorizationCookie and of
\* login.
LoginResponds(c, statuses, headers) ==
    /\ call[c].pc = "loginRequest"
    /\ \E status \in statuses, setCookie \in headers :
          LET cookie == requestAuthorizationCookie(status, setCookie)
              rec == [call[c] EXCEPT !.loginResponse =
                                         [status |-> status, setCookie |-> setCookie]]
          IN IF cookie = Null
             THEN /\ call' = [call EXCEPT ![c] = EndLogin(rec, "false")]
                  /\ UNCHANGED authenticationCookies
             ELSE /\ authenticationCookies' =
                         [authenticationCookies EXCEPT ![call[c].serverUrl] = cookie]
                  /\ call' = [call EXCEPT ![c] = EndLogin(rec, "true")]
    /\ UNCHANGED secrets

\* The rest of getAuthorizationCookie after login has returned, and the
\* operation up to its request.  The response of the login request was a
\* local of requestAuthorizationCookie and is gone.
LoginReturns(c) ==
    /\ call[c].pc = "loginReturn"
    /\ call' = [call EXCEPT ![c] =
                  LET rec == [call[c] EXCEPT !.loginResponse = NoLoginResponse]
                  IN IF rec.loginResult = "throw"
                     THEN [rec EXCEPT !.pc = "done", !.result = Throw(NetworkError)]
                     ELSE IF rec.loginResult # "true"
                     THEN SendRequest(rec, Null)
                     ELSE SendRequest(rec, authenticationCookies[rec.serverUrl])]
    /\ UNCHANGED <<authenticationCookies, secrets>>

\* The headers a server may put on the response to a getFileStat request.
StatHeaders ==
    {[contentLength |-> length, date |-> "undefined", readOnly |-> "undefined"] :
        length \in ContentLengths}
    \cup {[contentLength |-> <<"7">>, date |-> date, readOnly |-> readOnly] :
             date \in DateHeaders, readOnly \in ReadOnlyHeaders}

\* The status/body tests of the operation of a call.
OperationResult(op, response) ==
    CASE op = "getServerDescriptor" -> getServerDescriptorResult(response.status, response.data)
      [] op = "getChildItems" -> getChildItemsResult(response.status, response.data)
      [] op = "getFileStat" -> getFileStatResult(response.status, response.headers)
      [] op = "getFileContent" -> getFileContentResult(response.status, response.data)
      [] op = "updateFileContent" -> updateFileContentResult(response.status, response.data)
      [] OTHER -> actionUrlResult(response.status, response.data)

headNotSupportedOrMissing(status) == status = 405 \/ status = 404

\* getFileStat repeats its request with GET when the answer to HEAD has this
\* status.
headNotSupported(status) == status = 405

\* A resource request settles without a response: the exception of the
\* HTTP client leaves the operation.
RequestFails(c) ==
    /\ call[c].pc = "request"
    /\ call' = [call EXCEPT ![c] =
                  [@ EXCEPT !.pc = "done", !.result = Throw(NetworkError),
                            !.response = [NoResponse EXCEPT !.status = -1]]]
    /\ UNCHANGED <<authenticationCookies, secrets>>

\* A resource response arrives: the rest of the operation.
RequestResponds(c, statuses, bodies, statHeaders) ==
    /\ call[c].pc = "request"
    /\ LET rec == call[c]
           sent == rec.requests[Len(rec.requests)]
       IN \E status \in statuses,
             raw \in (IF sent.method = "HEAD" THEN {""} ELSE bodies),
             headers \in (IF rec.op = "getFileStat" THEN statHeaders ELSE {NoHeaders}) :
             LET response == [status |-> status, raw |-> raw,
                              data |-> transformResponse(ResponseType(rec.op), raw),
                              headers |-> headers]
             IN call' = [call EXCEPT ![c] =
                           IF rec.op = "getFileStat" /\ Len(rec.requests) = 1
                              /\ headNotSupported(status)
                           THEN [rec EXCEPT !.response = response,
                                            !.requests = Append(@, [method |-> "GET",
                                                                    url |-> rec.url,
                                                                    cookie |-> rec.cookie])]
                           ELSE [rec EXCEPT !.pc = "done", !.response = response,
                                            !.result = OperationResult(rec.op, response)]]
    /\ UNCHANGED <<authenticationCookies, secrets>>

\* The caller has taken the result; the slot is free for the next call.
Return(c) ==
    /\ call[c].pc = "done"
    /\ call' = [call EXCEPT ![c] = IdleCall]
    /\ UNCHANGED <<authenticationCookies, secrets>>

(***************************************************************************)
(* Texts and URIs of the tree data provider                                *)
(***************************************************************************)
UpperCaseLetters ==
    <<"A", "B", "C", "D", "E", "F", "G", "H", "I", "J", "K", "L", "M",
      "N", "O", "P", "Q", "R", "S", "T", "U", "V", "W", "X", "Y", "Z">>
LowerCaseLetters ==
    <<"a", "b", "c", "d", "e", "f", "g", "h", "i", "j", "k", "l", "m",
      "n", "o", "p", "q", "r", "s", "t", "u", "v", "w", "x", "y", "z">>

\* String.prototype.toLowerCase
toLowerCase(s) ==
    [i \in 1..Len(s) |->
        IF \E k \in 1..26 : UpperCaseLetters[k] = s[i]
        THEN LowerCaseLetters[CHOOSE k \in 1..26 : UpperCaseLetters[k] = s[i]]
        ELSE s[i]]

\* String.prototype.includes
Includes(s, part) ==
    \E i \in 1..(Len(s) - Len(part) + 1) : SubSeq(s, i, i + Len(part) - 1) = part

\* String.prototype.substring(n)
Substring(s, n) == SubSeq(s, n + 1, Len(s))

\* The text of s before position n.
Before(s, n) == SubSeq(s, 1, n - 1)

\* The position of the first character of s that is in set; Len(s) + 1
\* when there is none.
FirstOf(s, set) ==
    IF \E i \in 1..Len(s) : s[i] \in set
    THEN CHOOSE i \in 1..Len(s) :
            s[i] \in set /\ \A j \in 1..(i - 1) : s[j] \notin set
    ELSE Len(s) + 1

\* The characters of the texts that name schemes and hosts.
Text(str) ==
    CASE str = "https" -> <<"h", "t", "t", "p", "s">>
      [] str = "http" -> <<"h", "t", "t", "p">>
      [] str = "file" -> <<"f", "i", "l", "e">>
      [] str = "a.test" -> <<"a", ".", "t", "e", "s", "t">>
      [] str = "b.test" -> <<"b", ".", "t", "e", "s", "t">>
      [] OTHER -> <<>>

SchemeSeparator == <<":", "/", "/">>

\* The server URL as the string the provider holds: `${scheme}://${authority}`.
ServerUrlText(server) ==
    Text(server.scheme) \o SchemeSeparator \o Text(server.authority)

\* "ttmagnus" and "ttmagnuss"
customUriSchemeInsecure == <<"t", "t", "m", "a", "g", "n", "u", "s">>
customUriSchemeSecure == <<"t", "t", "m", "a", "g", "n", "u", "s", "s">>

\* "/api/TriumphTech/Magnus", the path prefix getWebUrlFromResource adds.
ApiPrefix ==
    <<"/", "a", "p", "i", "/", "T", "r", "i", "u", "m", "p", "h", "T", "e",
      "c", "h", "/", "M", "a", "g", "n", "u", "s">>

\* "/api/triumphtech/magnus", the prefix getResourceFromWebUrl looks for.
ApiPrefixLowerCase ==
    <<"/", "a", "p", "i", "/", "t", "r", "i", "u", "m", "p", "h", "t", "e",
      "c", "h", "/", "m", "a", "g", "n", "u", "s">>

\* The number of characters getResourceFromWebUrl removes: substring(23).
ApiPrefixLength == 23

\* A vscode.Uri: its five components.
Uri(scheme, authority, path, query, fragment) ==
    [scheme |-> scheme, authority |-> authority, path |-> path,
     query |-> query, fragment |-> fragment]

NoUri == Uri(<<>>, <<>>, <<>>, <<>>, <<>>)

\* The Uri constructor: without a scheme the scheme is "file"; the path of
\* an http, https or file URI is made to begin with "/".
UriFrom(scheme, authority, path, query, fragment) ==
    LET fixed == IF scheme = <<>> THEN Text("file") ELSE scheme
        resolved == IF fixed \in {Text("https"), Text("http"), Text("file")}
                       /\ (path = <<>> \/ Head(path) # "/")
                    THEN <<"/">> \o path
                    ELSE path
    IN Uri(fixed, authority, resolved, query, fragment)

\* The stages of vscode.Uri.parse, from the last to the first.  rest is the
\* text after the query: "#" and the fragment, or nothing.
UriParseFragment(scheme, authority, path, query, rest) ==
    UriFrom(scheme, authority, path, query,
            IF rest = <<>> THEN <<>> ELSE Substring(rest, 1))

\* fromQuery is the text after "?", queryEnd the position of its first "#".
UriParseQueryEnd(scheme, authority, path, fromQuery, queryEnd) ==
    UriParseFragment(scheme, authority, path, Before(fromQuery, queryEnd),
                     Substring(fromQuery, queryEnd - 1))

\* rest is the text after the path.
UriParseQuery(scheme, authority, path, rest) ==
    IF StartsWith(rest, <<"?">>)
    THEN UriParseQueryEnd(scheme, authority, path, Substring(rest, 1),
                          FirstOf(Substring(rest, 1), {"#"}))
    ELSE UriParseFragment(scheme, authority, path, <<>>, rest)

\* fromPath is the text after the authority, pathEnd the position of its
\* first "?" or "#".
UriParsePath(scheme, authority, fromPath, pathEnd) ==
    UriParseQuery(scheme, authority, Before(fromPath, pathEnd),
                  Substring(fromPath, pathEnd - 1))

\* fromAuthority is the text after "//", authorityEnd the position of its
\* first "/", "?" or "#".
UriParseAuthorityEnd(scheme, fromAuthority, authorityEnd) ==
    UriParsePath(scheme, Before(fromAuthority, authorityEnd),
                 Substring(fromAuthority, authorityEnd - 1),
                 FirstOf(Substring(fromAuthority, authorityEnd - 1), {"?", "#"}))

\* rest is the text after the scheme.
UriParseAuthority(scheme, rest) ==
    IF StartsWith(rest, <<"/", "/">>)
    THEN UriParseAuthorityEnd(scheme, Substring(rest, 2),
                              FirstOf(Substring(rest, 2), {"/", "?", "#"}))
    ELSE UriParsePath(scheme, <<>>, rest, FirstOf(rest, {"?", "#"}))

\* colon is the position of the first ":", "/", "?" or "#" of value.
UriParseScheme(value, colon) ==
    IF colon > 1 /\ colon <= Len(value) /\ value[colon] = ":"
    THEN UriParseAuthority(Before(value, colon), Substring(value, colon))
    ELSE UriParseAuthority(<<>>, value)

\* vscode.Uri.parse: scheme up to the first ":", authority after "//" up to
\* the first "/", "?" or "#", path up to the first "?" or "#", query up to
\* the first "#", then the fragment.
UriParse(value) ==
    UriParseScheme(value, FirstOf(value, {":", "/", "?", "#"}))

\* vscode.Uri.toString on texts made of letters, digits, "." and, in the
\* path, "/", which it writes as they are: the authority in lower case, "?"
\* and "#" only before a query or fragment that is not empty.
UriToString(uri) ==
    (IF uri.scheme = <<>> THEN <<>> ELSE uri.scheme \o <<":">>)
    \o (IF uri.authority = <<>> /\ uri.scheme # Text("file") THEN <<>> ELSE <<"/", "/">>)
    \o toLowerCase(uri.authority)
    \o uri.path
    \o (IF uri.query = <<>> THEN <<>> ELSE <<"?">> \o uri.query)
    \o (IF uri.fragment = <<>> THEN <<>> ELSE <<"#">> \o uri.fragment)

\* The values randomUUID may return.
Uuids == {<<"u", "1">>, <<"u", "2">>}

resourceBaseAlwaysSecure(serverUri) ==
    customUriSchemeSecure \o SchemeSeparator \o serverUri.authority

\* `${scheme}://${serverUri.authority}`
resourceBase(serverUri) ==
    (IF toLowerCase(serverUri.scheme) = Text("https")
     THEN customUriSchemeSecure
     ELSE customUriSchemeInsecure) \o SchemeSeparator \o serverUri.authority

\* The text getResourceFromWebUrl parses.
resourceText(base, url, uuid) ==
    IF url = Undefined \/ url = Null THEN base \o <<"/">> \o uuid
    ELSE IF Includes(url, SchemeSeparator) THEN url
    ELSE IF StartsWith(toLowerCase(url), ApiPrefixLowerCase)
         THEN base \o Substring(url, ApiPrefixLength)
    ELSE base \o url

getResourceFromWebUrlKeepsPrefix(serverUrl, url, uuid) ==
    UriParse(IF url = Undefined \/ url = Null
             THEN resourceBase(UriParse(serverUrl)) \o <<"/">> \o uuid
             ELSE IF Includes(url, SchemeSeparator) THEN url
             ELSE resourceBase(UriParse(serverUrl)) \o url)

\* MagnusTreeDataProvider.getResourceFromWebUrl; uuid is the value of
\* randomUUID().
getResourceFromWebUrl(serverUrl, url, uuid) ==
    UriParse(resourceText(resourceBase(UriParse(serverUrl)), url, uuid))

UnexpectedScheme == "Unexpected scheme."

webSchemeAlwaysSecure(uri) == Text("https")

\* The scheme getWebUrlFromResource gives the web URL.
webScheme(uri) ==
    IF uri.scheme = customUriSchemeSecure THEN Text("https") ELSE Text("http")

\* MagnusTreeDataProvider.getWebUrlFromResource: the error it throws ("" when
\* it returns) and the URL it returns.
getWebUrlFromResource(uri) ==
    IF uri.scheme # customUriSchemeInsecure /\ uri.scheme # customUriSchemeSecure
    THEN [error |-> UnexpectedScheme, url |-> <<>>]
    ELSE [error |-> "",
          url |-> UriToString(UriFrom(webScheme(uri), uri.authority,
                                      ApiPrefix \o uri.path, uri.query,
                                      uri.fragment))]

(***************************************************************************)
(* Item descriptors and tree nodes                                         *)
(***************************************************************************)
\* An IItemDescriptor.  The slots of type string hold a text, Undefined or
\* Null.
NoDescriptor ==
    [displayName |-> <<>>, tooltip |-> Undefined, uri |-> Undefined,
     isFolder |-> FALSE, icon |-> Undefined, iconDark |-> Undefined,
     id |-> Undefined, guid |-> Undefined, copyValue |-> Undefined,
     remoteViewUri |-> Undefined, remoteEditUri |-> Undefined,
     buildUri |-> Undefined, deleteUri |-> Undefined,
     newFileUri |-> Undefined, newFolderUri |-> Undefined,
     uploadFileUri |-> Undefined, uploadFolderUri |-> Undefined,
     disableOpenFile |-> "undefined"]

\* An ITreeNode.
TreeNode(serverUrl, resource, itemDescriptor, isServer) ==
    [serverUrl |-> serverUrl, resource |-> resource,
     itemDescriptor |-> itemDescriptor, isServer |-> isServer]

\* The value undefined of a variable that holds a tree node.
NoNode == TreeNode(ServerA, NoUri, NoDescriptor, FALSE)

\* The texts getContextValue puts together.
ServerType == <<"s", "e", "r", "v", "e", "r">>
FolderType == <<"f", "o", "l", "d", "e", "r">>
FileType == <<"f", "i", "l", "e">>
CanCopyIdFlag == <<"c", "a", "n", "C", "o", "p", "y", "I", "d", "_">>
CanCopyGuidFlag == <<"c", "a", "n", "C", "o", "p", "y", "G", "u", "i", "d", "_">>
CanCopyValueFlag == <<"c", "a", "n", "C", "o", "p", "y", "V", "a", "l", "u", "e", "_">>
CanViewFlag == <<"c", "a", "n", "V", "i", "e", "w", "_">>
CanEditFlag == <<"c", "a", "n", "E", "d", "i", "t", "_">>
CanDeleteFlag == <<"c", "a", "n", "D", "e", "l", "e", "t", "e", "_">>
CanNewFileFlag == <<"c", "a", "n", "N", "e", "w", "F", "i", "l", "e", "_">>
CanNewFolderFlag == <<"c", "a", "n", "N", "e", "w", "F", "o", "l", "d", "e", "r", "_">>
CanUploadFlag == <<"c", "a", "n", "U", "p", "l", "o", "a", "d", "_">>
CanUploadFolderFlag == <<"c", "a", "n", "U", "p", "l", "o", "a", "d", "F", "o", "l", "d", "e", "r", "_">>
CanBuildFlag == <<"c", "a", "n", "B", "u", "i", "l", "d", "_">>

\* The tests of getContextValue: id and guid are compared with null,
\* undefined and "", the other fields are tested for truthiness.
HasValue(s) == s # Null /\ s # Undefined /\ s # <<>>

canDeleteAlways(itemDescriptor) == TRUE

\* The test of getContextValue and of onDeleteUrl for the delete capability.
canDelete(itemDescriptor) == Truthy(itemDescriptor.deleteUri)

\* MagnusTreeDataProvider.getContextValue
getContextValue(node) ==
    LET d == node.itemDescriptor
        type == IF node.isServer THEN ServerType
                ELSE IF d.isFolder THEN FolderType ELSE FileType
    IN type \o <<"_">>
       \o (IF HasValue(d.id) THEN CanCopyIdFlag ELSE <<>>)
       \o (IF HasValue(d.guid) THEN CanCopyGuidFlag ELSE <<>>)
       \o (IF Truthy(d.copyValue) THEN CanCopyValueFlag ELSE <<>>)
       \o (IF Truthy(d.remoteViewUri) THEN CanViewFlag ELSE <<>>)
       \o (IF Truthy(d.remoteEditUri) THEN CanEditFlag ELSE <<>>)
       \o (IF canDelete(d) THEN CanDeleteFlag ELSE <<>>)
       \o (IF Truthy(d.newFileUri) THEN CanNewFileFlag ELSE <<>>)
       \o (IF Truthy(d.newFolderUri) THEN CanNewFolderFlag ELSE <<>>)
       \o (IF Truthy(d.uploadFileUri) THEN CanUploadFlag ELSE <<>>)
       \o (IF Truthy(d.uploadFolderUri) THEN CanUploadFolderFlag ELSE <<>>)
       \o (IF Truthy(d.buildUri) THEN CanBuildFlag ELSE <<>>)

\* The menu patterns of package.json (view/item/context): the command is
\* offered when the context value contains the text.
DeleteMenuPattern == <<"_", "c", "a", "n", "D", "e", "l", "e", "t", "e", "_">>

\* viewItem =~ /pattern/ for a pattern that is plain text.
MenuMatches(contextValue, pattern) == Includes(contextValue, pattern)

\* The text of `${url.substring}`: the source of the function.
SubstringSource ==
    <<"f", "u", "n", "c", "t", "i", "o", "n", " ", "s", "u", "b", "s", "t", "r", "i", "n", "g", "(", ")", " ", "{", " ", "[", "n", "a", "t", "i", "v", "e", " ", "c", "o", "d", "e", "]", " ", "}">>

\* MagnusTreeDataProvider.getFullyQualifiedUrl
getFullyQualifiedUrl(serverUrl, url) ==
    IF Includes(url, SchemeSeparator) THEN url
    ELSE IF ~StartsWith(url, <<"/">>) THEN serverUrl \o <<"/">> \o SubstringSource
    ELSE serverUrl \o url

\* The name of a scheme or host text ("" for any other text).
Name(text) ==
    CASE text = Text("https") -> "https"
      [] text = Text("http") -> "http"
      [] text = Text("a.test") -> "a.test"
      [] text = Text("b.test") -> "b.test"
      [] OTHER -> ""

\* A web URL as the Api takes it: the scheme and the authority by name, the
\* rest of the URL as its text.
WebUrlOf(uri) ==
    [scheme |-> Name(uri.scheme), authority |-> Name(uri.authority),
     path |-> uri.path
              \o (IF uri.query = <<>> THEN <<>> ELSE <<"?">> \o uri.query)
              \o (IF uri.fragment = <<>> THEN <<>> ELSE <<"#">> \o uri.fragment)]

WebUrl(text) == WebUrlOf(UriParse(text))

(***************************************************************************)
(* The tree data provider: its running handler                             *)
(***************************************************************************)
NoThrow == [op |-> "none", uri |-> NoUri, message |-> ""]

\* The command of a tree item: none, or "vscode.open" with the resource of
\* the element as its argument.
NoCommand == [command |-> "undefined", arguments |-> NoUri]
OpenFile(resource) == [command |-> "vscode.open", arguments |-> resource]

\* The command getTreeItem gives the tree item of element: the initializer
\* of node.command, then the assignment under hasOpenCommand.
treeItemCommand(element) ==
    LET d == element.itemDescriptor
        initial == IF d.isFolder THEN NoCommand ELSE OpenFile(element.resource)
        hasOpenCommand == /\ d.disableOpenFile # "true"
                          /\ ~d.isFolder
                          /\ (Truthy(d.uri) \/ element.isServer)
    IN IF hasOpenCommand THEN OpenFile(element.resource) ELSE initial

\* The locals of the provider method or event handler that is running, and
\* what it has shown and fired:
\*   pc            where it is suspended ("idle": none is running)
\*   op            the method or event
\*   serverUrl     the server of the node or of the URL at hand
\*   url           a logical path or capability URL
\*   resource      a virtual identifier
\*   webUrl        the web URL of the resource or of the capability
\*   error         the message of the error that left the handler ("": none)
\*   item          the tree node the handler was called with
\*   contextValue  the context value computed for the node
\*   command       the command of the tree item built for the node
\*   prompts       the number of dialogs shown (confirmation, input box,
\*                 file dialog)
\*   answer        the answer to the dialog ("none": not answered)
\*   progress      the messages reported to the progress notification
\*   messages      the messages shown with showErrorMessage
\*   fired         the nodes fired on didChangeTreeData
\*   nodes         the tree nodes built so far
\*   index         the position in the list of known servers
\*   servers       the list of known servers read at the start
\*   thrown        the last synchronous failure of an unsupported method
\*   logged        the failures written to the console: the position in the
\*                 list of known servers (0: none) and the message
\*   light         the light icon while the dark one is awaited
\*   iconPath      the icon of the rendered tree item
IdleHandler ==
    [pc |-> "idle", op |-> "none", serverUrl |-> ServerA, url |-> <<>>,
     resource |-> NoUri, webUrl |-> <<>>, error |-> "",
     item |-> NoNode, contextValue |-> <<>>, prompts |-> 0, answer |-> "none",
     progress |-> <<>>, messages |-> <<>>, fired |-> <<>>,
     nodes |-> <<>>, index |-> 0, servers |-> <<>>, thrown |-> NoThrow,
     logged |-> <<>>, light |-> <<>>, iconPath |-> [kind |-> "undefined"],
     command |-> NoCommand]

\* The sessions of the servers: the cookies each server accepts, and the
\* name of the session it issues next.
NoSessions == [s \in Servers |-> [valid |-> {}, next |-> "a"]]

\* No JSON text is being parsed.
NoJson == [decoded |-> <<>>, previous |-> <<>>, value |-> <<>>, revived |-> 0]

\* A command of the Commands class between two of its awaits.
\*   op            "add" (addServer) or "remove" (removeServer)
\*   serverUrl     the local serverUrl of addServer, node.serverUrl of
\*                 removeServer
\*   username, password   what the input boxes returned
\*   knownServers  the local array of the command
\*   login         the login call of addServer has been made
\*   saved, deleted       the credential store has answered the command
\*   updated       the command has written the list to globalState
\*   emitted       the server-added signals the command has emitted
\*   messages      the messages the command has shown
\*   outcome       how the command returned
IdleCommand ==
    [pc |-> "idle", op |-> "none", serverUrl |-> <<>>,
     username |-> "undefined", password |-> "undefined", knownServers |-> <<>>,
     login |-> FALSE, saved |-> FALSE, deleted |-> FALSE, updated |-> FALSE,
     emitted |-> 0, messages |-> <<>>, outcome |-> "none"]

\* The extension after its activation: no command runs, globalState has no
\* "KnownServers" value, nothing was given to addServer.
InitCommands ==
    /\ commands = [c \in Calls |-> IdleCommand]
    /\ sharedArrays = {}
    /\ given = {}
    /\ commandsRun = 0
    /\ jsonValue = NoJson
    /\ sessions = NoSessions

\* The provider after its construction: no server known, empty tables, an
\* empty icon cache.
InitProvider ==
    /\ knownServers = <<>>
    /\ treeNodeTable = <<>>
    /\ parentItemLookup = <<>>
    /\ iconData = <<>>
    /\ iconFetches = <<>>
    /\ handler = IdleHandler
    /\ InitCommands

(***************************************************************************)
(* Specification Spec: sessions.  One call at a time, every operation and  *)
(* login on both servers, every login response; the resource responses     *)
(* are a success, an authentication failure and a missing resource.        *)
(***************************************************************************)
Init ==
    /\ authenticationCookies = [s \in Servers |-> Undefined]
    /\ secrets \in [Servers -> SecretValues]
    /\ call = [c \in Calls |-> IdleCall]
    /\ InitProvider

SessionStatuses == {200, 401, 404}
SessionBodies == {"{}"}

Operate ==
    /\ NoOtherCall(1) /\ CallOperation(1, Servers)
    /\ UNCHANGED providerVars
Login ==
    /\ NoOtherCall(1) /\ CallLogin(1)
    /\ UNCHANGED providerVars
Credentials ==
    /\ \E c \in Calls : ReadCredentials(c)
    /\ UNCHANGED providerVars
LoginError ==
    /\ \E c \in Calls : LoginFails(c)
    /\ UNCHANGED providerVars
LoginResponse ==
    /\ \E c \in Calls : LoginResponds(c, LoginStatuses, SetCookieHeaders)
    /\ UNCHANGED providerVars
AfterLogin ==
    /\ \E c \in Calls : LoginReturns(c)
    /\ UNCHANGED providerVars
RequestError ==
    /\ \E c \in Calls : RequestFails(c)
    /\ UNCHANGED providerVars
Response ==
    /\ \E c \in Calls : RequestResponds(c, SessionStatuses, SessionBodies, {NoHeaders})
    /\ UNCHANGED providerVars
Finish ==
    /\ \E c \in Calls : Return(c)
    /\ UNCHANGED providerVars

Next ==
    \/ Operate
    \/ Login
    \/ Credentials
    \/ LoginError
    \/ LoginResponse
    \/ AfterLogin
    \/ RequestError
    \/ Response
    \/ Finish

Spec == Init /\ [][Next]_vars

(***************************************************************************)
(* Properties of Spec                                                       *)
(***************************************************************************)
\* The calls that have finished session acquisition.
Acquired(c) == call[c].op \in Operations /\ call[c].pc \in {"request", "done"}

StoredCredentials(server) == getCredentials(secrets[server])

\* C1: session acquisition for a server returns the cached cookie without
\* a login request when one is cached (no operation is logging in while a
\* cookie is cached for its server); when none is cached it invokes login
\* exactly once, which sends at most one login request, to the login
\* endpoint of that server and with the stored credentials, and when that
\* login succeeds the cookie returned is the one now cached for the server.
C1_SessionAcquisition ==
    \A c \in Calls :
      /\ (call[c].op \in Operations /\ call[c].pc \in {"credentials", "loginRequest"}) =>
            ~Truthy(authenticationCookies[call[c].serverUrl])
      /\ Acquired(c) =>
            LET rec == call[c] IN
            /\ rec.cached =>
                  /\ rec.logins = 0
                  /\ rec.loginRequests = <<>>
                  /\ Truthy(rec.cookie)
                  /\ rec.cookie = authenticationCookies[rec.serverUrl]
            /\ ~rec.cached =>
                  /\ rec.logins = 1
                  /\ Len(rec.loginRequests) <= 1
                  /\ \A i \in 1..Len(rec.loginRequests) :
                        /\ rec.loginRequests[i].url = getApiUrl(rec.serverUrl, LoginPath)
                        /\ rec.loginRequests[i].username = StoredCredentials(rec.serverUrl).username
                        /\ rec.loginRequests[i].password = StoredCredentials(rec.serverUrl).password
                  /\ rec.loginResult = "true" =>
                        /\ Len(rec.loginRequests) = 1
                        /\ Truthy(rec.cookie)
                        /\ rec.cookie = authenticationCookies[rec.serverUrl]
                  /\ rec.loginResult # "true" => rec.cookie = Null

\* C1 witness: a call that found no cookie, logged in once with success and
\* sent its request with the cookie ".ROCK=b" that is now cached.
C1_Witness ==
    \E c \in Calls :
        /\ Acquired(c) /\ ~call[c].cached /\ call[c].loginResult = "true"
        /\ call[c].pc = "request"
        /\ call[c].cookie = <<".", "R", "O", "C", "K", "=", "b">>
        /\ authenticationCookies[call[c].serverUrl] = call[c].cookie

\* The login calls whose outcome is known: a direct call of login that is
\* complete, or the login of an operation that has just returned.
LoginEnded(c) ==
    \/ call[c].op = "login" /\ call[c].pc = "done"
    \/ call[c].pc = "loginReturn"

HasRockCookie(setCookie) ==
    /\ setCookie # NoHeader
    /\ \E i \in 1..Len(setCookie) : StartsWith(setCookie[i], RockPrefix)

\* The failures of a login: no login request was sent (no usable stored
\* credentials), the request got no response, the status is neither 200 nor
\* 204, there is no set-cookie header, or no cookie in it matches.
LoginFailure(rec) ==
    \/ rec.loginRequests = <<>>
    \/ rec.loginResponse.status = -1
    \/ rec.loginResponse.status \notin {200, 204}
    \/ rec.loginResponse.setCookie = NoHeader
    \/ ~HasRockCookie(rec.loginResponse.setCookie)

C2_ReturnsFalse ==
    \A c \in Calls :
        /\ call[c].loginResult # "throw"
        /\ call[c].op = "login" /\ call[c].pc = "done" =>
              call[c].result.kind \in {"true", "false"}
        /\ LoginEnded(c) /\ LoginFailure(call[c]) =>
              /\ call[c].loginResult = "false"
              /\ call[c].op = "login" => call[c].result = ReturnBoolean(FALSE)

\* A step in which no login comes to return true.
NoLoginSucceeds ==
    \A c \in Calls : call'[c].loginResult = "true" => call[c].loginResult = "true"

\* C2: login never throws: on every failure (no stored credentials, no
\* response, a status other than 200 and 204, no set-cookie header, no
\* matching cookie) it returns false, and no step of a login that does not
\* return true changes the cookie cache.
C2_LoginNeverThrows ==
    /\ []C2_ReturnsFalse
    /\ [][NoLoginSucceeds => authenticationCookies' = authenticationCookies]_vars

\* C2 witness: a direct login on a server with a cached cookie has failed
\* on a request without response and returned false.
C2_Witness ==
    \E c \in Calls :
        /\ call[c].op = "login" /\ call[c].pc = "done"
        /\ call[c].loginResponse.status = -1
        /\ call[c].result = ReturnBoolean(FALSE)
        /\ Truthy(authenticationCookies[call[c].serverUrl])

\* The first cookie of the header that begins with ".ROCK=".
FirstRockCookie(setCookie) ==
    setCookie[CHOOSE i \in 1..Len(setCookie) :
                 /\ StartsWith(setCookie[i], RockPrefix)
                 /\ \A j \in 1..(i - 1) : ~StartsWith(setCookie[j], RockPrefix)]

\* The text of s before its first ";", all of s when it has none.
BeforeSemicolon(s) ==
    LET stops == {i \in 1..Len(s) : s[i] = ";"}
    IN IF stops = {} THEN s
       ELSE SubSeq(s, 1, (CHOOSE i \in stops : \A j \in stops : i <= j) - 1)

C3_TrueIffCookie ==
    \A c \in Calls :
        LoginEnded(c) =>
            LET rec == call[c]
                good == /\ rec.loginResponse.status \in {200, 204}
                        /\ HasRockCookie(rec.loginResponse.setCookie)
            IN /\ rec.loginResult = "true" <=> good
               /\ rec.op = "login" => (rec.result = ReturnBoolean(TRUE) <=> good)
               /\ good => authenticationCookies[rec.serverUrl] =
                             BeforeSemicolon(FirstRockCookie(rec.loginResponse.setCookie))

\* A step changes the cache only for the server of a login that comes to
\* return true in that step.
C3_Frame ==
    \A s \in Servers :
        authenticationCookies'[s] # authenticationCookies[s] =>
            \E c \in Calls :
                /\ call[c].serverUrl = s
                /\ call[c].loginResult = "none"
                /\ call'[c].loginResult = "true"

\* C3: login returns true if and only if the login response has status 200
\* or 204 and its set-cookie header holds a cookie that begins with ".ROCK=";
\* then, and only then, the cache entry of that server becomes the text of
\* the first such cookie up to its first ";", and no other entry changes.
C3_LoginCachesCookie ==
    /\ []C3_TrueIffCookie
    /\ [][C3_Frame]_vars

\* C3 witness: a direct login on one server returned true on a header whose
\* second cookie matches, while the other server keeps its own cookie.
C3_Witness ==
    \E c \in Calls :
        /\ call[c].op = "login" /\ call[c].pc = "done"
        /\ call[c].result = ReturnBoolean(TRUE)
        /\ call[c].loginResponse.setCookie = <<CookieOther, CookieB>>
        /\ authenticationCookies[call[c].serverUrl] = <<".", "R", "O", "C", "K", "=", "b">>
        /\ \E s \in Servers \ {call[c].serverUrl} :
              authenticationCookies[s] = <<".", "R", "O", "C", "K", "=", "a">>

\* C5 (as claimed): when a request made with a cached cookie is answered
\* with an authentication failure (status 401), the cookie is dropped from
\* the cache, so the cache no longer holds the rejected cookie once the
\* operation is complete.
C5_RejectedCookieDropped ==
    \A c \in Calls :
        (/\ call[c].op \in Operations /\ call[c].pc = "done"
         /\ call[c].response.status = 401)
        => authenticationCookies[call[c].serverUrl] # call[c].cookie

\* C6: every operation acquires a cookie before its resource request: each
\* request carries the cookie the acquisition returned; when none could be
\* obtained the operation fails with "Unable to authorize with the server."
\* and has sent no resource request; a call sends at most one login request.
C6_AuthorizeFirst ==
    \A c \in Calls :
        call[c].op \in Operations =>
            LET rec == call[c] IN
            /\ Len(rec.loginRequests) <= 1
            /\ rec.logins <= 1
            /\ rec.requests # <<>> =>
                  /\ rec.cached \/ rec.loginResult = "true"
                  /\ Truthy(rec.cookie)
                  /\ \A i \in 1..Len(rec.requests) : rec.requests[i].cookie = rec.cookie
            /\ (rec.pc = "done" /\ ~rec.cached /\ rec.loginResult # "true") =>
                  /\ rec.result = Throw(UnableToAuthorize)
                  /\ rec.requests = <<>>
            /\ (rec.pc = "done" /\ rec.result = Throw(UnableToAuthorize)) =>
                  rec.requests = <<>>

\* C6 witness: an operation whose one login request was rejected has failed
\* with the authorization error and has sent no resource request.
C6_Witness ==
    \E c \in Calls :
        /\ call[c].op = "updateFileContent" /\ call[c].pc = "done"
        /\ Len(call[c].loginRequests) = 1
        /\ call[c].loginResult = "false"
        /\ call[c].result = Throw(UnableToAuthorize)
        /\ call[c].requests = <<>>

(***************************************************************************)
(* The state after both servers have been registered with credentials.     *)
(***************************************************************************)
InitRegistered ==
    /\ authenticationCookies = [s \in Servers |-> Undefined]
    /\ secrets = [s \in Servers |-> SecretStored]
    /\ call = [c \in Calls |-> IdleCall]
    /\ InitProvider

(***************************************************************************)
(* Specification SpecConcurrent: overlapping calls.  Every slot may hold a *)
(* listing request at the same time; a login is answered with one of two   *)
(* cookies or without any.                                                  *)
(***************************************************************************)
ConcurrentSetCookies == {NoHeader, <<CookieA>>, <<CookieOther, CookieB>>}

ConcurrentList ==
    /\ \E c \in Calls, server \in Servers : Operation(c, "getChildItems", server, getApiUrl(server, ChildItemsPath(<<>>)), "")
    /\ UNCHANGED providerVars
ConcurrentCredentials ==
    /\ \E c \in Calls : ReadCredentials(c)
    /\ UNCHANGED providerVars
ConcurrentLoginResponse ==
    /\ \E c \in Calls : LoginResponds(c, {200}, ConcurrentSetCookies)
    /\ UNCHANGED providerVars
ConcurrentAfterLogin ==
    /\ \E c \in Calls : LoginReturns(c)
    /\ UNCHANGED providerVars
ConcurrentResponse ==
    /\ \E c \in Calls : RequestResponds(c, {200, 401}, SessionBodies, {NoHeaders})
    /\ UNCHANGED providerVars
ConcurrentFinish ==
    /\ \E c \in Calls : Return(c)
    /\ UNCHANGED providerVars

NextConcurrent ==
    \/ ConcurrentList
    \/ ConcurrentCredentials
    \/ ConcurrentLoginResponse
    \/ ConcurrentAfterLogin
    \/ ConcurrentResponse
    \/ ConcurrentFinish

SpecConcurrent == InitRegistered /\ [][NextConcurrent]_vars

\* C4 (as claimed): of two session acquisitions for the same server that
\* overlap with no cookie cached, only one sends a login request: two login
\* requests for one server are never outstanding at the same time.
C4_OneLoginRequest ==
    \A c1, c2 \in Calls :
        (c1 # c2 /\ call[c1].serverUrl = call[c2].serverUrl)
        => ~(call[c1].pc = "loginRequest" /\ call[c2].pc = "loginRequest")

IssuedCookies == {<<".", "R", "O", "C", "K", "=", "a">>, <<".", "R", "O", "C", "K", "=", "b">>}

C4_EachMissLogsIn ==
    \A c \in Calls :
        LET rec == call[c] IN
        /\ rec.pc \in {"credentials", "loginRequest", "loginReturn"} =>
              ~rec.cached /\ rec.logins = 1
        /\ rec.pc = "loginRequest" => Len(rec.loginRequests) = 1
        /\ (rec.pc \in {"request", "done"} /\ rec.cached) =>
              /\ rec.loginRequests = <<>>
              /\ rec.cookie \in IssuedCookies
        /\ (rec.pc \in {"request", "done"} /\ ~rec.cached /\ rec.loginResult = "true") =>
              /\ Len(rec.loginRequests) = 1
              /\ rec.cookie \in IssuedCookies

\* A call that starts is a cache hit exactly when a login for its server
\* has completed with success before; otherwise it starts its own login.
C4_StartRule ==
    \A c \in Calls :
        (call[c].pc = "idle" /\ call'[c].pc # "idle") =>
            /\ call'[c].cached <=> Truthy(authenticationCookies[call'[c].serverUrl])
            /\ ~call'[c].cached => call'[c].pc = "credentials" /\ call'[c].logins = 1

\* C4 (amended): a second session acquisition for the same server is a
\* cache hit that sends no login request only when it starts after a login
\* for that server has completed; when it starts before, both calls miss
\* the cache, each sends its own login request, and each resolves to a
\* cookie issued by the server when its own login succeeds.
C4_ConcurrentMisses ==
    /\ []C4_EachMissLogsIn
    /\ [][C4_StartRule]_vars

\* C4 witness: two overlapping calls for one server have both missed the
\* cache, both sent a login request, and both hold an issued cookie.
C4_Witness ==
    \E c1, c2 \in Calls :
        /\ c1 # c2 /\ call[c1].serverUrl = call[c2].serverUrl
        /\ call[c1].pc = "request" /\ call[c2].pc = "request"
        /\ ~call[c1].cached /\ ~call[c2].cached
        /\ Len(call[c1].loginRequests) = 1 /\ Len(call[c2].loginRequests) = 1
        /\ call[c1].cookie \in IssuedCookies /\ call[c2].cookie \in IssuedCookies

(***************************************************************************)
(* Specification SpecResponses: response handling.  One call at a time,    *)
(* every operation on both servers, logins that succeed, and every         *)
(* resource response: status, body and, for getFileStat, headers.          *)
(***************************************************************************)
ResponsesOperate ==
    /\ NoOtherCall(1) /\ CallOperation(1, Servers)
    /\ UNCHANGED providerVars
ResponsesCredentials ==
    /\ \E c \in Calls : ReadCredentials(c)
    /\ UNCHANGED providerVars
ResponsesLoginResponse ==
    /\ \E c \in Calls : LoginResponds(c, {200}, {<<CookieA>>})
    /\ UNCHANGED providerVars
ResponsesAfterLogin ==
    /\ \E c \in Calls : LoginReturns(c)
    /\ UNCHANGED providerVars
ResponsesRequestError ==
    /\ \E c \in Calls : RequestFails(c)
    /\ UNCHANGED providerVars
ResponsesResponse ==
    /\ \E c \in Calls : RequestResponds(c, ResourceStatuses, RawBodies, StatHeaders)
    /\ UNCHANGED providerVars
ResponsesFinish ==
    /\ \E c \in Calls : Return(c)
    /\ UNCHANGED providerVars

NextResponses ==
    \/ ResponsesOperate
    \/ ResponsesCredentials
    \/ ResponsesLoginResponse
    \/ ResponsesAfterLogin
    \/ ResponsesRequestError
    \/ ResponsesResponse
    \/ ResponsesFinish

SpecResponses == InitRegistered /\ [][NextResponses]_vars

\* The calls that ended on a response.
Answered(c) ==
    /\ call[c].op \in Operations /\ call[c].pc = "done"
    /\ call[c].response.status > 0

\* The outcome of a call: the message of the error, or "value".
Outcome(rec) == IF rec.result.kind = "error" THEN rec.result.message ELSE rec.result.kind

\* The operations whose code tests the body of the response.
TestsBody(op) == op # "getFileStat"

\* C7 (as claimed): the outcome is one function of (status, body) in all
\* operations: 404 is not-found, 403 is access-denied, another status
\* outside [200,300) is unexpected-response, a 2xx status with an empty
\* body is unexpected-response on the operations that need a body, and
\* every other case returns the result.
C7_UniformClassification ==
    \A c \in Calls :
        Answered(c) =>
            Outcome(call[c]) =
                LET status == call[c].response.status
                IN IF status = 404 THEN NotFound
                   ELSE IF status = 403 THEN AccessDenied
                   ELSE IF status < 200 \/ status >= 300 THEN UnexpectedResponse
                   ELSE IF TestsBody(call[c].op) /\ call[c].response.raw = ""
                        THEN UnexpectedResponse
                   ELSE "value"

\* The operations that decode the body as text or JSON; getFileContent and
\* updateFileContent receive a byte buffer.
DecodesText(op) == op \in {"getServerDescriptor", "getChildItems", "actionUrl"}

\* The body texts whose decoded value is falsy: the empty text and the JSON
\* texts of null, false, 0 and the empty string.
FalsyTexts == {"", "null", "false", "0", "\"\""}

\* C7 (amended): the outcome is one function of (status, body) in all
\* operations: 404 is not-found, 403 is access-denied, another status
\* outside [200,300) is unexpected-response; a 2xx status is
\* unexpected-response exactly on the operations that decode a text or JSON
\* body (getServerDescriptor, getChildItems, actionUrl) when the decoded
\* body is falsy (empty text, or JSON null, false, 0, ""); getFileStat,
\* getFileContent and updateFileContent never fail on the body; every
\* other case returns the result.
C7_Classification ==
    \A c \in Calls :
        Answered(c) =>
            Outcome(call[c]) =
                LET status == call[c].response.status
                IN IF status = 404 THEN NotFound
                   ELSE IF status = 403 THEN AccessDenied
                   ELSE IF status < 200 \/ status >= 300 THEN UnexpectedResponse
                   ELSE IF DecodesText(call[c].op) /\ call[c].response.raw \in FalsyTexts
                        THEN UnexpectedResponse
                   ELSE "value"

\* C7 witness: a listing answered 200 with the body "null" has failed with
\* the unexpected-response error.
C7_Witness ==
    \E c \in Calls :
        /\ Answered(c) /\ call[c].op = "getChildItems"
        /\ call[c].response.status = 200 /\ call[c].response.raw = "null"
        /\ call[c].result = Throw(UnexpectedResponse)

RECURSIVE Power10(_)
Power10(n) == IF n = 0 THEN 1 ELSE 10 * Power10(n - 1)

\* The text of a header without leading blanks.
Trimmed(h) ==
    LET blanks == {i \in 0..Len(h) : \A j \in 1..i : h[j] = " "}
        k == CHOOSE i \in blanks : \A j \in blanks : j <= i
    IN SubSeq(h, k + 1, Len(h))

\* The number of digits a text begins with.
LeadingDigits(t) ==
    LET prefixes == {i \in 0..Len(t) : \A j \in 1..i : IsDigit(t[j])}
    IN CHOOSE i \in prefixes : \A j \in prefixes : j <= i

\* The number a content-length header gives: the decimal number its value
\* begins with, 0 when the header is absent or begins with no number.
HeaderSize(h) ==
    IF h = Undefined THEN 0
    ELSE LET t == Trimmed(h)
             n == LeadingDigits(t)
             sum[i \in 0..n] ==
                 IF i = 0 THEN 0
                 ELSE sum[i - 1] + DigitValue(t[i]) * Power10(n - i)
         IN sum[n]

MaxUploadFiles == 10000
MaxUploadBytes == 100000000

CountLimit == "Cannot upload more than 10,000 files at one time."
SizeLimit == "Cannot upload more than 100MB at one time."
LocalReadError == "EACCES: permission denied"

\* The sizes of the local files: one byte, and the size that brings 9,999
\* files of one byte to the byte limit.
FileSizes == {1, MaxUploadBytes - MaxUploadFiles + 1}

countExceededFrom(fileCount) == fileCount >= MaxUploadFiles

countExceeded(fileCount) == fileCount > MaxUploadFiles

sizeExceededNever(totalSize) == FALSE

sizeExceeded(totalSize) == totalSize > MaxUploadBytes

\* uploadFolderUrl is called: up to the readdir of the folder.
CallUploadFolder(c, servers) ==
    /\ call[c].pc = "idle"
    /\ \E server \in servers :
          call' = [call EXCEPT ![c] =
                     [IdleCall EXCEPT !.pc = "readdir", !.op = "uploadFolderUrl",
                                      !.serverUrl = getServerBaseUrl(Url(server, FilePath)),
                                      !.url = Url(server, FilePath), !.method = "POST"]]
    /\ UNCHANGED <<authenticationCookies, secrets>>

\* A local read (readdir, stat, readFile) fails: the exception leaves
\* uploadFolderUrl.
LocalReadFails(c) ==
    /\ call[c].pc \in {"readdir", "stat", "readFile"}
    /\ call' = [call EXCEPT ![c] = [@ EXCEPT !.pc = "done", !.result = Throw(LocalReadError)]]
    /\ UNCHANGED <<authenticationCookies, secrets>>

\* readdir returns the names of the directory; the loop over them begins.
ReadDirectory(c) ==
    /\ call[c].pc = "readdir"
    /\ call' = [call EXCEPT ![c] = [@ EXCEPT !.pc = "stat"]]
    /\ UNCHANGED <<authenticationCookies, secrets>>

\* The loop has no further name: appendDirectory returns to the loop of the
\* parent directory or, for the folder itself, to uploadFolderUrl, which
\* calls actionUrl.
DirectoryEnds(c) ==
    /\ call[c].pc = "stat"
    /\ call' = [call EXCEPT ![c] =
                  IF call[c].depth > 0
                  THEN [@ EXCEPT !.depth = @ - 1]
                  ELSE getAuthorizationCookie(@)]
    /\ UNCHANGED <<authenticationCookies, secrets>>

\* stat of the next name returns: a file is counted and tested against both
\* limits before it is read, a directory is entered, anything else skipped.
StatReturns(c) ==
    /\ call[c].pc = "stat"
    /\ \/ \E size \in FileSizes :
             LET fileCount == call[c].fileCount + 1
                 totalSize == call[c].totalSize + size
                 rec == [call[c] EXCEPT !.fileCount = fileCount, !.totalSize = totalSize]
             IN call' = [call EXCEPT ![c] =
                           IF countExceeded(fileCount)
                           THEN [rec EXCEPT !.pc = "done", !.result = Throw(CountLimit)]
                           ELSE IF sizeExceeded(totalSize)
                           THEN [rec EXCEPT !.pc = "done", !.result = Throw(SizeLimit)]
                           ELSE [rec EXCEPT !.pc = "readFile"]]
       \/ /\ call[c].depth < MaxDepth
          /\ call' = [call EXCEPT ![c] = [@ EXCEPT !.pc = "readdir", !.depth = @ + 1]]
       \/ call' = call
    /\ UNCHANGED <<authenticationCookies, secrets>>

\* readFile returns: the file is appended to the form.
ReadFile(c) ==
    /\ call[c].pc = "readFile"
    /\ call' = [call EXCEPT ![c] = [@ EXCEPT !.pc = "stat", !.formData = @ + 1]]
    /\ UNCHANGED <<authenticationCookies, secrets>>

(***************************************************************************)
(* Specification SpecUpload: one folder upload at a time.                  *)
(***************************************************************************)
UploadFolder ==
    /\ NoOtherCall(1) /\ CallUploadFolder(1, {ServerA})
    /\ UNCHANGED providerVars
UploadReadError ==
    /\ \E c \in Calls : LocalReadFails(c)
    /\ UNCHANGED providerVars
UploadReadDirectory ==
    /\ \E c \in Calls : ReadDirectory(c)
    /\ UNCHANGED providerVars
UploadDirectoryEnds ==
    /\ \E c \in Calls : DirectoryEnds(c)
    /\ UNCHANGED providerVars
UploadStat ==
    /\ \E c \in Calls : StatReturns(c)
    /\ UNCHANGED providerVars
UploadReadFile ==
    /\ \E c \in Calls : ReadFile(c)
    /\ UNCHANGED providerVars
UploadCredentials ==
    /\ \E c \in Calls : ReadCredentials(c)
    /\ UNCHANGED providerVars
UploadLoginResponse ==
    /\ \E c \in Calls : LoginResponds(c, {200}, {NoHeader, <<CookieA>>})
    /\ UNCHANGED providerVars
UploadAfterLogin ==
    /\ \E c \in Calls : LoginReturns(c)
    /\ UNCHANGED providerVars
UploadResponse ==
    /\ \E c \in Calls : RequestResponds(c, {200}, SessionBodies, {NoHeaders})
    /\ UNCHANGED providerVars
UploadFinish ==
    /\ \E c \in Calls : Return(c)
    /\ UNCHANGED providerVars

NextUpload ==
    \/ UploadFolder
    \/ UploadReadError
    \/ UploadReadDirectory
    \/ UploadDirectoryEnds
    \/ UploadStat
    \/ UploadReadFile
    \/ UploadCredentials
    \/ UploadLoginResponse
    \/ UploadAfterLogin
    \/ UploadResponse
    \/ UploadFinish

SpecUpload == InitRegistered /\ [][NextUpload]_vars

\* The folder uploads.
Uploading(c) == call[c].op = "uploadFolderUrl"

\* C9 (as claimed): the upload fails with the count-limit error exactly
\* when the enumeration has reached a 10,001st file, and with the
\* size-limit error exactly when the cumulative size of the files
\* enumerated so far exceeds 100,000,000 bytes.
C9_GuardsExact ==
    \A c \in Calls :
        Uploading(c) =>
            /\ call[c].result = Throw(CountLimit) <=> call[c].fileCount > 10000
            /\ call[c].result = Throw(SizeLimit) <=> call[c].totalSize > 100000000

\* C9 (amended): the upload fails with the count-limit error exactly when
\* the enumeration reaches a 10,001st file, and with the size-limit error
\* exactly when the cumulative size exceeds 100,000,000 bytes at a file that
\* is not the 10,001st (the count is tested first); a folder of exactly
\* 10,000 files of exactly 100,000,000 bytes is rejected by neither guard.
C9_Guards ==
    \A c \in Calls :
        Uploading(c) =>
            /\ call[c].result = Throw(CountLimit) <=> call[c].fileCount > 10000
            /\ call[c].result = Throw(SizeLimit) <=>
                  (call[c].totalSize > 100000000 /\ call[c].fileCount <= 10000)
            /\ (call[c].fileCount = 10000 /\ call[c].totalSize = 100000000) =>
                  call[c].result.message \notin {CountLimit, SizeLimit}

\* C9 witness: the 10,001st file also takes the size over the limit, and
\* the upload has failed with the count-limit error.
C9_Witness ==
    \E c \in Calls :
        /\ Uploading(c) /\ call[c].pc = "done"
        /\ call[c].fileCount = 10001 /\ call[c].totalSize = 100000001
        /\ call[c].result = Throw(CountLimit)

\* C10: an upload that fails on a guard or on a local read error has sent
\* no request at all, neither a login nor the upload; while the folder is
\* being enumerated nothing is sent, and the upload request is sent only
\* after the whole folder has been enumerated within both limits, every
\* counted file appended.
C10_NoRequestBeforeEnumerated ==
    \A c \in Calls :
        Uploading(c) =>
            LET rec == call[c]
                silent == rec.logins = 0 /\ rec.loginRequests = <<>> /\ rec.requests = <<>>
            IN /\ rec.pc \in {"readdir", "stat", "readFile"} => silent
               /\ rec.result.message \in {CountLimit, SizeLimit, LocalReadError} => silent
               /\ ~silent =>
                     /\ rec.depth = 0
                     /\ rec.fileCount <= 10000
                     /\ rec.totalSize <= 100000000
                     /\ rec.formData = rec.fileCount
               /\ \A i \in 1..Len(rec.requests) :
                     rec.requests[i].method = "POST" /\ rec.requests[i].url = rec.url

\* C10 witness: an upload has failed on the size guard at its second file
\* without a request.
C10_Witness ==
    \E c \in Calls :
        /\ Uploading(c) /\ call[c].pc = "done"
        /\ call[c].result = Throw(SizeLimit)
        /\ call[c].fileCount = 2
        /\ call[c].loginRequests = <<>> /\ call[c].requests = <<>>

(***************************************************************************)
(* Specification SpecUris: the translation between logical paths and       *)
(* virtual identifiers.  A logical path of either server is turned into a  *)
(* resource (as getChildren does for every item it lists) and the resource *)
(* back into a web URL (as stat, readFile and writeFile do).               *)
(***************************************************************************)
MaxTail == 3

apiVars == <<authenticationCookies, secrets, call>>
tableVars ==
    <<knownServers, treeNodeTable, parentItemLookup, iconData, iconFetches, commandVars>>

\* The logical paths: nothing, the resource-API prefix or the prefix in
\* lower case, followed by up to MaxTail characters.
PathAlphabet == {"/", "x", "M"}
Tails == UNION {[1..n -> PathAlphabet] : n \in 0..MaxTail}
LogicalPaths ==
    {head \o tail : head \in {<<>>, ApiPrefix, ApiPrefixLowerCase}, tail \in Tails}

UrisResource ==
    /\ handler.pc = "idle"
    /\ \E server \in Servers, url \in LogicalPaths, uuid \in Uuids :
          handler' = [IdleHandler EXCEPT
                         !.pc = "resource", !.op = "getResourceFromWebUrl",
                         !.serverUrl = server, !.url = url,
                         !.resource = getResourceFromWebUrl(ServerUrlText(server), url, uuid)]
    /\ UNCHANGED <<apiVars, tableVars>>

UrisWebUrl ==
    /\ handler.pc = "resource"
    /\ LET web == getWebUrlFromResource(handler.resource)
       IN handler' = [handler EXCEPT !.pc = "webUrl", !.op = "getWebUrlFromResource",
                                     !.webUrl = web.url, !.error = web.error]
    /\ UNCHANGED <<apiVars, tableVars>>

UrisDone ==
    /\ handler.pc = "webUrl"
    /\ handler' = IdleHandler
    /\ UNCHANGED <<apiVars, tableVars>>

NextUris ==
    \/ UrisResource
    \/ UrisWebUrl
    \/ UrisDone

SpecUris == InitRegistered /\ [][NextUris]_vars

\* The real web URL of the logical path p on server s: s followed by p.
RealWebUrl(s, p) == ServerUrlText(s) \o p

\* A path has been translated to a resource and back.
RoundTripDone == handler.pc = "webUrl"

UnderApiPrefix(p) ==
    /\ StartsWith(p, ApiPrefix)
    /\ Len(p) > Len(ApiPrefix) => p[Len(ApiPrefix) + 1] = "/"

WithoutApiPrefix(path) ==
    IF StartsWith(toLowerCase(path), ApiPrefixLowerCase)
    THEN SubSeq(path, Len(ApiPrefix) + 1, Len(path))
    ELSE path

\* C12 (as claimed): for every logical path without "://", the path of the
\* round trip without the resource-API prefix is the logical path without
\* the prefix, and the round trip has the scheme and the authority of the
\* server.
C12_PrefixEquivalence ==
    RoundTripDone =>
        LET web == UriParse(handler.webUrl)
        IN /\ handler.error = ""
           /\ WithoutApiPrefix(web.path) = WithoutApiPrefix(handler.url)
           /\ web.scheme = Text(handler.serverUrl.scheme)
           /\ web.authority = Text(handler.serverUrl.authority)

\* A logical path has been translated to a virtual identifier.
Translated == handler.pc \in {"resource", "webUrl"}

\* C37: for every server and every logical path without "://" (also a path
\* that only begins with the characters of the resource-API prefix, and
\* the prefix alone), the virtual identifier has the authority of the
\* server and the logical path without the prefix as its path.
C37_VirtualAuthorityAndPath ==
    Translated =>
        /\ handler.resource.authority = Text(handler.serverUrl.authority)
        /\ handler.resource.path = WithoutApiPrefix(handler.url)

\* The logical paths whose part after the prefix is empty or begins a path
\* segment.
SegmentAfterPrefix(p) ==
    WithoutApiPrefix(p) # <<>> => Head(WithoutApiPrefix(p)) = "/"

\* For the logical paths with a segment after the prefix, and only for
\* them, the virtual identifier has the authority of the server, and then
\* its path is the logical path without the prefix.
C37_SegmentAfterPrefix ==
    (Translated /\ handler.url # <<>>) =>
        /\ (handler.resource.authority = Text(handler.serverUrl.authority))
              <=> SegmentAfterPrefix(handler.url)
        /\ SegmentAfterPrefix(handler.url) =>
              handler.resource.path = WithoutApiPrefix(handler.url)

(***************************************************************************)
(* The tree data provider: listing, the virtual filesystem                 *)
(***************************************************************************)
\* The item descriptors of a decoded listing (camel-cased by the reviver of
\* jsonParse).
FileItem ==
    [NoDescriptor EXCEPT !.uri = ApiPrefix \o <<"/", "f">>]
CapableItem ==
    [NoDescriptor EXCEPT !.uri = ApiPrefix \o <<"/", "c">>, !.isFolder = TRUE,
                         !.buildUri = <<"/", "b">>, !.deleteUri = <<"/", "d">>,
                         !.newFileUri = <<"/", "n", "f">>,
                         !.newFolderUri = <<"/", "n", "d">>,
                         !.uploadFileUri = <<"/", "u", "f">>,
                         !.uploadFolderUri = <<"/", "u", "d">>]
BareItem ==
    [NoDescriptor EXCEPT !.displayName = <<"n">>]

FolderItem ==
    [NoDescriptor EXCEPT !.uri = ApiPrefix \o <<"/", "c">>, !.isFolder = TRUE]
PathItem ==
    [NoDescriptor EXCEPT !.uri = <<"/", "x">>]
AbsoluteItem ==
    [NoDescriptor EXCEPT !.uri = customUriSchemeInsecure \o SchemeSeparator
                                 \o Text("b.test") \o <<"/", "x">>]

Items(data) ==
    CASE data.v = ListingFile -> <<FileItem>>
      [] data.v = ListingCapable -> <<CapableItem>>
      [] data.v = ListingBare -> <<BareItem>>
      [] data.v = ListingRoot -> <<FolderItem, FileItem>>
      [] data.v = ListingMixed -> <<PathItem, BareItem, FileItem>>
      [] data.v = ListingAbsolute -> <<FileItem, AbsoluteItem>>
      [] OTHER -> <<>>

\* The server descriptor of a decoded response; a decoded value without
\* the fields getServerNodes reads gives undefined for each of them.
ServerDescriptor(data) ==
    IF data.v = DescriptorCapable
    THEN [NoDescriptor EXCEPT !.tooltip = <<"t", "i", "p">>,
                              !.buildUri = <<"/", "b">>,
                              !.uploadFileUri = <<"/", "u", "f">>,
                              !.uploadFolderUri = <<"/", "u", "d">>]
    ELSE NoDescriptor

\* "$(server)"
ServerIcon == <<"$", "(", "s", "e", "r", "v", "e", "r", ")">>

\* a || b on string-typed slots
OrElse(a, b) == IF Truthy(a) THEN a ELSE b

\* The node getServerNodes pushes for a known server; descriptor is the
\* fetched server descriptor, NoDescriptor when the fetch failed (every
\* `descriptor?.field` is then undefined).
serverNode(server, descriptor) ==
    LET uri == UriParse(ServerUrlText(server))
    IN TreeNode(server,
                UriFrom(IF toLowerCase(uri.scheme) = Text("https")
                        THEN customUriSchemeSecure ELSE customUriSchemeInsecure,
                        uri.authority, <<>>, <<>>, <<>>),
                [NoDescriptor EXCEPT
                    !.displayName = uri.authority,
                    !.tooltip = OrElse(descriptor.tooltip, uri.authority),
                    !.isFolder = TRUE,
                    !.icon = OrElse(descriptor.icon, ServerIcon),
                    !.iconDark = OrElse(descriptor.iconDark, ServerIcon),
                    !.buildUri = descriptor.buildUri,
                    !.uploadFileUri = descriptor.uploadFileUri,
                    !.uploadFolderUri = descriptor.uploadFolderUri,
                    !.uri = <<>>],
                TRUE)

\* item.uri ?? ""
UriOrEmpty(uri) == IF uri = Undefined \/ uri = Null THEN <<>> ELSE uri

\* The key of a node in treeNodeTable and parentItemLookup.
NodeKey(node) == UriToString(node.resource)

\* table[key] = value
Put(table, keys, value) ==
    [k \in DOMAIN table \cup keys |-> IF k \in keys THEN value ELSE table[k]]

NotAnArray == "childItemDescriptors.map is not a function"

\* The provider calls an operation of the Api; the call runs in slot 1.
ApiCall(op, server, url, method) == Operation(1, op, server, url, method)

\* The operation of the Api has returned or thrown.
ApiSettled == handler.pc = "api" /\ call[1].pc = "done"

ApiErrorWithoutText == IF call[1].result.kind = "error" THEN "Error" ELSE ""

ApiError == IF call[1].result.kind = "error" THEN call[1].result.message ELSE ""

\* getChildren(element) up to its first await.
GetChildren(elements) ==
    /\ handler.pc = "idle"
    /\ \E element \in elements :
          LET started == [IdleHandler EXCEPT !.op = "getChildren", !.item = element,
                                             !.serverUrl = element.serverUrl]
          IN IF ~Truthy(element.itemDescriptor.uri) /\ ~element.isServer
             THEN /\ handler' = [started EXCEPT !.pc = "done"]
                  /\ UNCHANGED apiVars
             ELSE /\ handler' = [started EXCEPT !.pc = "api"]
                  /\ ApiCall("getChildItems", element.serverUrl,
                             getApiUrl(element.serverUrl,
                                       ChildItemsPath(UriOrEmpty(element.itemDescriptor.uri))),
                             "")
    /\ UNCHANGED tableVars

\* The nodes getChildren makes of the item descriptors.
childNodes(element, descriptors, uuid) ==
    [i \in 1..Len(descriptors) |->
        TreeNode(element.serverUrl,
                 getResourceFromWebUrl(ServerUrlText(element.serverUrl),
                                       descriptors[i].uri, uuid),
                 descriptors[i], FALSE)]

\* getChildren records the parent of each node and returns the nodes.
childrenReturned(element, items) ==
    /\ handler' = [handler EXCEPT !.pc = "done", !.nodes = items]
    /\ parentItemLookup' =
          Put(parentItemLookup, {NodeKey(items[i]) : i \in 1..Len(items)}, element)

\* getChildItems has settled: the rest of getChildren.
ChildrenListed ==
    /\ ApiSettled /\ handler.op = "getChildren"
    /\ call' = [call EXCEPT ![1] = IdleCall]
    /\ IF ApiError # ""
       THEN /\ handler' = [handler EXCEPT !.pc = "done", !.error = ApiError]
            /\ UNCHANGED parentItemLookup
       ELSE IF call[1].result.data.t # "array"
       THEN /\ handler' = [handler EXCEPT !.pc = "done", !.error = NotAnArray]
            /\ UNCHANGED parentItemLookup
       ELSE \E uuid \in Uuids :
               childrenReturned(handler.item,
                                childNodes(handler.item,
                                           Items(call[1].result.data), uuid))
    /\ UNCHANGED <<authenticationCookies, secrets, knownServers, treeNodeTable,
                   iconData, iconFetches, commandVars>>

\* The Api operation behind each method of the virtual filesystem.
FileSystemOperation(op) ==
    CASE op = "stat" -> "getFileStat"
      [] op = "readFile" -> "getFileContent"
      [] OTHER -> "updateFileContent"

\* stat, readFile or writeFile up to its first await.  For a server that is
\* not registered nothing is cached and no credentials are stored: login
\* sends nothing and returns false, and the operation throws.
callFileSystem(started, op, web, url) ==
    IF web.error # ""
    THEN /\ handler' = [started EXCEPT !.pc = "done", !.error = web.error]
         /\ UNCHANGED apiVars
    ELSE IF getServerBaseUrl(url) \notin Servers
    THEN /\ handler' = [started EXCEPT !.pc = "done", !.error = UnableToAuthorize]
         /\ UNCHANGED apiVars
    ELSE /\ handler' = [started EXCEPT !.pc = "api",
                                       !.serverUrl = getServerBaseUrl(url)]
         /\ ApiCall(FileSystemOperation(op), getServerBaseUrl(url), url, "")

translated(op, uri, web) ==
    callFileSystem([IdleHandler EXCEPT !.op = op, !.resource = uri,
                                       !.webUrl = web.url],
                   op, web, WebUrl(web.url))

FileSystemCall(identifiers) ==
    /\ handler.pc = "idle"
    /\ \E op \in {"stat", "readFile", "writeFile"}, uri \in identifiers :
          translated(op, uri, getWebUrlFromResource(uri))
    /\ UNCHANGED tableVars

\* The Api operation has settled: stat, readFile or writeFile returns its
\* value or lets its error through.
FileSystemReturns ==
    /\ ApiSettled /\ handler.op \in {"stat", "readFile", "writeFile"}
    /\ call' = [call EXCEPT ![1] = IdleCall]
    /\ handler' = [handler EXCEPT !.pc = "done", !.error = ApiError]
    /\ UNCHANGED <<authenticationCookies, secrets, tableVars>>

MethodNotImplementedAsNotFound == NotFound

\* The error of readDirectory, createDirectory, delete and rename.
MethodNotImplemented == "Method not implemented."

UnsupportedMethods == {"readDirectory", "createDirectory", "delete", "rename"}

\* readDirectory, createDirectory, delete or rename is called, in any state
\* of the provider: it throws at once.
Unsupported(identifiers) ==
    /\ \E op \in UnsupportedMethods, uri \in identifiers :
          handler' = [handler EXCEPT !.thrown = [op |-> op, uri |-> uri,
                                                 message |-> MethodNotImplemented]]
    /\ UNCHANGED <<apiVars, tableVars>>

\* The caller has taken the result of the handler.
HandlerDone ==
    /\ handler.pc = "done"
    /\ handler' = IdleHandler
    /\ UNCHANGED <<apiVars, tableVars>>

(***************************************************************************)
(* Specification SpecFileSystem: the virtual filesystem.  Both servers are *)
(* registered; their root nodes are listed, identifiers of every scheme    *)
(* are stated, read and written, and the unsupported methods are called.   *)
(***************************************************************************)
IdentifierSchemes ==
    {customUriSchemeInsecure, customUriSchemeSecure, Text("file"), Text("https"),
     <<"T", "T", "M", "A", "G", "N", "U", "S">>}

Identifiers ==
    {Uri(scheme, authority, <<"/", "f">>, query, fragment) :
        scheme \in IdentifierSchemes,
        authority \in {Text("a.test"), Text("b.test")},
        query \in {<<>>, <<"q">>},
        fragment \in {<<>>, <<"t">>}}

RootNodes == {serverNode(server, NoDescriptor) : server \in Servers}

FsList == GetChildren(RootNodes)
FsListed == ChildrenListed
FsCall == FileSystemCall(Identifiers)
FsReturns == FileSystemReturns
FsUnsupported ==
    Unsupported({Uri(customUriSchemeSecure, Text("a.test"), <<"/", "f">>, <<>>, <<>>),
                 Uri(Text("file"), <<>>, <<"/", "f">>, <<>>, <<>>)})
FsDone == HandlerDone
FsCredentials ==
    /\ ReadCredentials(1)
    /\ UNCHANGED providerVars
FsLoginResponse ==
    /\ LoginResponds(1, {200, 401}, {<<CookieA>>})
    /\ UNCHANGED providerVars
FsAfterLogin ==
    /\ LoginReturns(1)
    /\ UNCHANGED providerVars
FsRequestError ==
    /\ RequestFails(1)
    /\ UNCHANGED providerVars
FsResponse ==
    /\ RequestResponds(1, {200, 404}, {ListingFile}, {NoHeaders})
    /\ UNCHANGED providerVars

NextFileSystem ==
    \/ FsList
    \/ FsListed
    \/ FsCall
    \/ FsReturns
    \/ FsUnsupported
    \/ FsDone
    \/ FsCredentials
    \/ FsLoginResponse
    \/ FsAfterLogin
    \/ FsRequestError
    \/ FsResponse

SpecFileSystem == InitRegistered /\ [][NextFileSystem]_vars

\* The methods of the virtual filesystem that reach the server.
FileSystemMethods == {"stat", "readFile", "writeFile"}

Recognised(uri) ==
    \/ uri.scheme = <<"t", "t", "m", "a", "g", "n", "u", "s">>
    \/ uri.scheme = <<"t", "t", "m", "a", "g", "n", "u", "s", "s">>

C13_Translation ==
    handler.op \in FileSystemMethods =>
        LET uri == handler.resource
            web == UriParse(handler.webUrl)
        IN /\ ~Recognised(uri) =>
                 /\ handler.pc = "done"
                 /\ handler.error = "Unexpected scheme."
                 /\ \A c \in Calls : call[c] = IdleCall
           /\ Recognised(uri) =>
                 /\ handler.error # "Unexpected scheme."
                 /\ web.scheme = (IF uri.scheme = <<"t", "t", "m", "a", "g", "n", "u", "s", "s">>
                                  THEN <<"h", "t", "t", "p", "s">>
                                  ELSE <<"h", "t", "t", "p">>)
                 /\ web.authority = uri.authority
                 /\ web.path = ApiPrefix \o uri.path
                 /\ web.query = uri.query
                 /\ web.fragment = uri.fragment
                 /\ \A i \in 1..Len(call[1].requests) :
                       call[1].requests[i].url = WebUrl(handler.webUrl)

\* A step in which stat, readFile or writeFile is called with an identifier
\* of an unrecognised scheme.
UnrecognisedCall ==
    /\ handler.pc = "idle"
    /\ handler'.op \in FileSystemMethods
    /\ ~Recognised(handler'.resource)

RemoteErrors ==
    {UnableToAuthorize, NotFound, AccessDenied, UnexpectedResponse, NetworkError,
     CountLimit, SizeLimit, LocalReadError}

C14_Signal ==
    /\ handler.thrown # NoThrow =>
          /\ handler.thrown.op \in {"readDirectory", "createDirectory", "delete", "rename"}
          /\ handler.thrown.message = "Method not implemented."
          /\ handler.thrown.message \notin RemoteErrors
    /\ handler.error # "Method not implemented."
    /\ \A c \in Calls : call[c].result.message # "Method not implemented."

\* A step in which one of the unsupported methods is called.
UnsupportedCall == handler'.thrown # handler.thrown /\ handler'.thrown # NoThrow

\* C14: readDirectory, createDirectory, delete and rename fail with
\* "Method not implemented." for every argument and in every state of the
\* provider, the call sends no request and changes neither the cookie
\* cache nor the lookup tables nor the handler that is running, and the
\* message is never that of a remote error.
C14_NotImplemented ==
    /\ []C14_Signal
    /\ [][UnsupportedCall =>
             /\ UNCHANGED <<authenticationCookies, call, treeNodeTable, parentItemLookup>>
             /\ handler' = [handler EXCEPT !.thrown = handler'.thrown]]_vars

\* C14 witness: delete has thrown while readFile waits for the answer to its
\* request, with a cookie cached and a parent recorded.
C14_Witness ==
    /\ handler.thrown.op = "delete"
    /\ handler.thrown.message = "Method not implemented."
    /\ handler.op = "readFile" /\ handler.pc = "api"
    /\ call[1].pc = "request"
    /\ Truthy(authenticationCookies[ServerA])
    /\ parentItemLookup # <<>>

(***************************************************************************)
(* The tree data provider: rendering and the item actions                  *)
(***************************************************************************)
\* getTreeItem(element) for an element without a remote icon: the icon pair
\* is settled without a request, the element is recorded in treeNodeTable
\* and its context value is computed.
GetTreeItem(elements) ==
    /\ handler.pc = "idle"
    /\ \E element \in elements :
          /\ ~Truthy(element.itemDescriptor.icon)
          /\ handler' = [IdleHandler EXCEPT !.pc = "done", !.op = "getTreeItem",
                                            !.item = element,
                                            !.serverUrl = element.serverUrl,
                                            !.contextValue = getContextValue(element),
                                            !.command = treeItemCommand(element)]
          /\ treeNodeTable' = Put(treeNodeTable, {NodeKey(element)}, element)
    /\ UNCHANGED <<apiVars, knownServers, parentItemLookup, iconData, iconFetches,
                   commandVars>>

\* The nodes that have been rendered.
Rendered == {treeNodeTable[k] : k \in DOMAIN treeNodeTable}

ActionKinds == {"build", "newFile", "newFolder", "upload", "uploadFolder", "delete"}

CapabilityUriUploadOfFolder(kind, itemDescriptor) ==
    CASE kind = "build" -> itemDescriptor.buildUri
      [] kind = "newFile" -> itemDescriptor.newFileUri
      [] kind = "newFolder" -> itemDescriptor.newFolderUri
      [] kind = "upload" -> itemDescriptor.uploadFolderUri
      [] kind = "uploadFolder" -> itemDescriptor.uploadFolderUri
      [] OTHER -> itemDescriptor.deleteUri

\* The capability URL each event handler tests and resolves.
CapabilityUri(kind, itemDescriptor) ==
    CASE kind = "build" -> itemDescriptor.buildUri
      [] kind = "newFile" -> itemDescriptor.newFileUri
      [] kind = "newFolder" -> itemDescriptor.newFolderUri
      [] kind = "upload" -> itemDescriptor.uploadFileUri
      [] kind = "uploadFolder" -> itemDescriptor.uploadFolderUri
      [] OTHER -> itemDescriptor.deleteUri

\* The guard at the head of each event handler.
HasCapability(kind, itemDescriptor) ==
    IF kind = "delete" THEN canDelete(itemDescriptor)
    ELSE Truthy(CapabilityUri(kind, itemDescriptor))

\* The method of the request of each action.
ActionMethod(kind) == IF kind = "delete" THEN "DELETE" ELSE "POST"

\* The message shown when the response has no responseMessage and the
\* action was not successful.
FailureMessage(kind) ==
    CASE kind = "build" -> "Build failed."
      [] kind = "newFile" -> "Failed to create new file."
      [] kind = "newFolder" -> "Failed to create new folder."
      [] kind = "delete" -> "Delete failed."
      [] OTHER -> "Upload failed."

\* The answers to the dialog of each handler: the button of the modal
\* confirmation or none, a name or none, the number of selected files or
\* folders ("undefined": the dialog was dismissed).
Answers(kind) ==
    CASE kind = "delete" -> {"Delete", "undefined"}
      [] kind \in {"newFile", "newFolder"} -> {"name", "", "undefined"}
      [] kind = "upload" -> {"2", "1", "0", "undefined"}
      [] OTHER -> {"1", "0", "undefined"}

acceptsAnyAnswer(kind, answer) == TRUE

acceptsEmptyName(kind, answer) ==
    CASE kind = "delete" -> answer = "Delete"
      [] kind \in {"newFile", "newFolder"} -> answer # "undefined"
      [] kind = "upload" -> answer \notin {"0", "undefined"}
      [] OTHER -> answer = "1"

\* The test each handler makes on the answer before it goes on.
accepts(kind, answer) ==
    CASE kind = "delete" -> answer = "Delete"
      [] kind \in {"newFile", "newFolder"} -> answer \notin {"", "undefined"}
      [] kind = "upload" -> answer \notin {"0", "undefined"}
      [] OTHER -> answer = "1"

\* The number of local files uploadUrl reads.
SelectedFiles(answer) == IF answer = "2" THEN 2 ELSE 1

\* The Api method each handler calls (buildUrl, deleteUrl, createNewFile
\* and createNewFolder are actionUrl with a method).
ActionOperation(kind) ==
    CASE kind = "upload" -> "uploadUrl"
      [] kind = "uploadFolder" -> "uploadFolderUrl"
      [] OTHER -> "actionUrl"

\* The Api method is called with the resolved URL: actionUrl acquires the
\* cookie at once, uploadUrl and uploadFolderUrl read the local files first.
CallAction(kind, url, answer) ==
    IF ActionOperation(kind) = "actionUrl"
    THEN ApiCall("actionUrl", getServerBaseUrl(url), url, ActionMethod(kind))
    ELSE /\ call[1].pc = "idle"
         /\ call' = [call EXCEPT ![1] =
                       [IdleCall EXCEPT
                           !.pc = IF kind = "upload" THEN "readFile" ELSE "readdir",
                           !.op = ActionOperation(kind),
                           !.serverUrl = getServerBaseUrl(url), !.url = url,
                           !.method = "POST",
                           !.fileCount = IF kind = "upload" THEN SelectedFiles(answer) ELSE 0]]
         /\ UNCHANGED <<authenticationCookies, secrets>>

\* uploadUrl: readFile of the next local file returns and the file is
\* appended to the form; after the last one actionUrl is called.
UploadFileRead(c) ==
    /\ call[c].pc = "readFile" /\ call[c].op = "uploadUrl"
    /\ call' = [call EXCEPT ![c] =
                  LET rec == [call[c] EXCEPT !.formData = @ + 1]
                  IN IF rec.formData = rec.fileCount
                     THEN getAuthorizationCookie(rec)
                     ELSE rec]
    /\ UNCHANGED <<authenticationCookies, secrets>>

\* An event of an item action arrives: the handler up to its first await.
\* onBuildUrl shows no dialog and calls the Api at once.
ActionEvent(kinds, items) ==
    /\ handler.pc = "idle"
    /\ \E kind \in kinds, item \in items :
          LET started == [IdleHandler EXCEPT !.op = kind, !.item = item,
                                             !.serverUrl = item.serverUrl]
              capability == CapabilityUri(kind, item.itemDescriptor)
              url == getFullyQualifiedUrl(ServerUrlText(item.serverUrl), capability)
          IN IF ~HasCapability(kind, item.itemDescriptor)
             THEN /\ handler' = [started EXCEPT !.pc = "done"]
                  /\ UNCHANGED apiVars
             ELSE IF kind = "build"
             THEN /\ handler' = [started EXCEPT !.pc = "api", !.url = capability,
                                                !.webUrl = url]
                  /\ CallAction(kind, WebUrl(url), "")
             ELSE /\ handler' = [started EXCEPT !.pc = "dialog", !.url = capability,
                                                !.webUrl = url, !.prompts = 1]
                  /\ UNCHANGED apiVars
    /\ UNCHANGED tableVars

\* The dialog is answered or dismissed: the handler returns, or calls the
\* Api inside withProgress.
DialogAnswered ==
    /\ handler.pc = "dialog"
    /\ \E answer \in Answers(handler.op) :
          IF ~accepts(handler.op, answer)
          THEN /\ handler' = [handler EXCEPT !.pc = "done", !.answer = answer]
               /\ UNCHANGED apiVars
          ELSE /\ handler' = [handler EXCEPT !.pc = "api", !.answer = answer]
               /\ CallAction(handler.op, WebUrl(handler.webUrl), answer)
    /\ UNCHANGED tableVars

\* The fields of a decoded action response that the handlers read; a
\* decoded value without them gives undefined for both.
ActionResponse(data) ==
    CASE data.v = ActionDone -> [actionSuccessful |-> TRUE, responseMessage |-> "done"]
      [] data.v = ActionSilent -> [actionSuccessful |-> TRUE, responseMessage |-> "undefined"]
      [] data.v = ActionDiskFull -> [actionSuccessful |-> FALSE, responseMessage |-> "disk full"]
      [] OTHER -> [actionSuccessful |-> FALSE, responseMessage |-> "undefined"]

\* message || fallback
MessageOr(message, fallback) ==
    IF message \in {"undefined", "null", ""} THEN fallback ELSE message

\* The handlers that look the parent of the item up and fire it after the
\* response: all but onBuildUrl.
refreshesParent(kind) == kind # "build"

\* The Api method has settled: the rest of the withProgress callback up to
\* its timer.  An error is shown and ends the callback.
ActionSettled ==
    /\ ApiSettled /\ handler.op \in ActionKinds
    /\ call' = [call EXCEPT ![1] = IdleCall]
    /\ IF ApiError # ""
       THEN handler' = [handler EXCEPT !.pc = "done", !.error = ApiError,
                                       !.messages = Append(@, ApiError)]
       ELSE LET response == ActionResponse(call[1].result.data)
                key == NodeKey(handler.item)
                reported ==
                    IF response.actionSuccessful
                    THEN [handler EXCEPT
                             !.progress = Append(@, MessageOr(response.responseMessage, "Complete"))]
                    ELSE [handler EXCEPT
                             !.progress = Append(@, "Complete"),
                             !.messages = Append(@, MessageOr(response.responseMessage,
                                                              FailureMessage(handler.op)))]
            IN handler' = [reported EXCEPT
                              !.pc = "timer",
                              !.fired = IF refreshesParent(handler.op)
                                           /\ key \in DOMAIN parentItemLookup
                                        THEN Append(@, parentItemLookup[key])
                                        ELSE @]
    /\ UNCHANGED <<authenticationCookies, secrets, tableVars>>

\* The timer of two seconds has run out: the progress notification closes.
TimerEnds ==
    /\ handler.pc = "timer"
    /\ handler' = [handler EXCEPT !.pc = "done"]
    /\ UNCHANGED <<apiVars, tableVars>>

(***************************************************************************)
(* Specification SpecActions: the item actions.  The root of https://a.test *)
(* and the folder it lists are listed, and every action is invoked on the  *)
(* root node and on the items a listing can return, listed or not.         *)
(***************************************************************************)
RootA == serverNode(ServerA, ServerDescriptor(Js("object", DescriptorCapable)))

\* The node getChildren builds for an item descriptor of https://a.test.
ItemNode(itemDescriptor, uuid) ==
    TreeNode(ServerA,
             getResourceFromWebUrl(ServerUrlText(ServerA), itemDescriptor.uri, uuid),
             itemDescriptor, FALSE)

ActionItems ==
    {RootA, ItemNode(FileItem, <<"u", "1">>), ItemNode(CapableItem, <<"u", "1">>)}

ActionsList == GetChildren({RootA, ItemNode(CapableItem, <<"u", "1">>)})
ActionsListed == ChildrenListed
ActionsEvent == ActionEvent(ActionKinds, ActionItems)
ActionsDialog == DialogAnswered
ActionsSettled == ActionSettled
ActionsTimer == TimerEnds
ActionsDone == HandlerDone
ActionsFileRead ==
    /\ UploadFileRead(1)
    /\ UNCHANGED providerVars
ActionsReadDirectory ==
    /\ call[1].op = "uploadFolderUrl" /\ ReadDirectory(1)
    /\ UNCHANGED providerVars
ActionsDirectoryEnds ==
    /\ DirectoryEnds(1)
    /\ UNCHANGED providerVars
ActionsReadError ==
    /\ LocalReadFails(1)
    /\ UNCHANGED providerVars
ActionsCredentials ==
    /\ ReadCredentials(1)
    /\ UNCHANGED providerVars
ActionsLoginResponse ==
    /\ LoginResponds(1, {200, 401}, {<<CookieA>>})
    /\ UNCHANGED providerVars
ActionsAfterLogin ==
    /\ LoginReturns(1)
    /\ UNCHANGED providerVars
ActionsRequestError ==
    /\ RequestFails(1)
    /\ UNCHANGED providerVars
ActionsResponse ==
    /\ RequestResponds(1, {200, 500},
                       IF call[1].op = "getChildItems"
                       THEN {ListingCapable, ListingFile}
                       ELSE ActionTexts \cup {"<html>"},
                       {NoHeaders})
    /\ UNCHANGED providerVars

NextActions ==
    \/ ActionsList
    \/ ActionsListed
    \/ ActionsEvent
    \/ ActionsDialog
    \/ ActionsSettled
    \/ ActionsTimer
    \/ ActionsDone
    \/ ActionsFileRead
    \/ ActionsReadDirectory
    \/ ActionsDirectoryEnds
    \/ ActionsReadError
    \/ ActionsCredentials
    \/ ActionsLoginResponse
    \/ ActionsAfterLogin
    \/ ActionsRequestError
    \/ ActionsResponse

SpecActions == InitRegistered /\ [][NextActions]_vars

\* The requests and login requests of all calls.
NothingSent ==
    \A c \in Calls : call[c].requests = <<>> /\ call[c].loginRequests = <<>>

\* C16: a DELETE request is sent only by a delete invocation whose own
\* modal confirmation was shown and answered with "Delete"; as long as the
\* dialog is open, and when it was dismissed, the invocation has started no
\* call of the Api, sent no request and fired no refresh.
C16_DeleteAfterConfirmation ==
    /\ \A c \in Calls :
          (\/ call[c].method = "DELETE"
           \/ \E i \in 1..Len(call[c].requests) : call[c].requests[i].method = "DELETE") =>
              /\ handler.op = "delete"
              /\ handler.prompts = 1
              /\ handler.answer = "Delete"
    /\ (handler.op = "delete" /\ handler.answer # "Delete") =>
          /\ \A c \in Calls : call[c] = IdleCall
          /\ NothingSent
          /\ handler.fired = <<>>

\* C16 witness: the confirmation was answered with "Delete" and the DELETE
\* request to https://a.test/d is in flight.
C16_Witness ==
    /\ handler.op = "delete" /\ handler.answer = "Delete" /\ handler.pc = "api"
    /\ call[1].pc = "request"
    /\ call[1].requests[Len(call[1].requests)].method = "DELETE"
    /\ call[1].requests[Len(call[1].requests)].url = WebUrl(ServerUrlText(ServerA) \o <<"/", "d">>)

\* The parent recorded for the item of the handler.
HasParent == NodeKey(handler.item) \in DOMAIN parentItemLookup
Parent == parentItemLookup[NodeKey(handler.item)]

\* C17 (as claimed): a build whose response is actionSuccessful false with
\* the responseMessage "disk full" shows "disk full" and fires a refresh of
\* the parent recorded for the built node.
C17_FailedBuildRefreshes ==
    (/\ handler.op = "build" /\ handler.pc = "timer"
     /\ handler.messages = <<"disk full">>
     /\ HasParent) =>
        handler.fired = <<Parent>>

\* C18 (as claimed): for build, new-file, new-folder, upload-file,
\* upload-folder and delete, no refresh is fired before the response; once
\* the call has completed with a response the parent recorded for the node
\* has been fired, and without a recorded parent nothing is fired and no
\* error is raised.
C18_RefreshAfterResponse ==
    handler.op \in {"build", "newFile", "newFolder", "upload", "uploadFolder", "delete"} =>
        /\ handler.pc \in {"dialog", "api"} => handler.fired = <<>>
        /\ handler.pc = "timer" =>
              /\ handler.error = ""
              /\ handler.fired = IF HasParent THEN <<Parent>> ELSE <<>>

\* The invocation of the handler has had no effect outside the input box:
\* no call of the Api, no request and no login request, no progress
\* report, no message and no refresh.
NoEffect ==
    /\ \A c \in Calls : call[c] = IdleCall
    /\ NothingSent
    /\ handler.progress = <<>>
    /\ handler.messages = <<>>
    /\ handler.fired = <<>>

\* C29: new-file and new-folder ask for a name before anything happens
\* remotely: while the input box is open, and when it was cancelled or
\* answered with the empty name, the action has made no request and no
\* login, reported no progress, shown no message and fired no refresh; a
\* request is in flight or sent only after a name was entered.
C29_NameBeforeRequest ==
    handler.op \in {"newFile", "newFolder"} =>
        /\ handler.pc = "dialog" => NoEffect
        /\ (handler.pc = "done" /\ handler.prompts = 1
               /\ handler.answer \in {"", "undefined"}) => NoEffect
        /\ ~NoEffect => (handler.prompts = 1 /\ handler.answer = "name")

\* C29 witness: the input box of new-folder was answered with the empty
\* name and the handler has returned.
C29_Witness ==
    /\ handler.op = "newFolder" /\ handler.pc = "done"
    /\ handler.prompts = 1 /\ handler.answer = ""
    /\ Truthy(handler.item.itemDescriptor.newFolderUri)

\* The input box of new-file was cancelled.
C29_WitnessCancelled ==
    /\ handler.op = "newFile" /\ handler.pc = "done"
    /\ handler.prompts = 1 /\ handler.answer = "undefined"

\* A name was entered and the request of new-file is in flight.
C29_WitnessNamed ==
    /\ handler.op = "newFile" /\ handler.pc = "api" /\ handler.answer = "name"
    /\ call[1].pc = "request"

(***************************************************************************)
(* Specification SpecMenus: the delete capability.  One node of            *)
(* https://a.test is rendered, with any combination of the fields that     *)
(* getContextValue reads, and a delete event arrives for it.               *)
(***************************************************************************)
\* What a capability field may hold: nothing or a URL.
Optional == {Undefined, <<"/", "v">>}

\* What deleteUri may hold: undefined, null, "" or a URL.
DeleteUris == {Undefined, Null, <<>>, <<"/", "d">>}

WideDescriptors ==
    {[NoDescriptor EXCEPT
         !.uri = ApiPrefix \o <<"/", "w">>, !.isFolder = isFolder,
         !.id = id, !.guid = guid, !.copyValue = copyValue,
         !.remoteViewUri = remoteViewUri, !.remoteEditUri = remoteEditUri,
         !.deleteUri = deleteUri, !.newFileUri = newFileUri,
         !.newFolderUri = newFolderUri, !.uploadFileUri = uploadFileUri,
         !.uploadFolderUri = uploadFolderUri, !.buildUri = buildUri] :
        isFolder \in BOOLEAN, id \in Optional, guid \in Optional,
        copyValue \in Optional, remoteViewUri \in Optional,
        remoteEditUri \in Optional, deleteUri \in DeleteUris,
        newFileUri \in Optional, newFolderUri \in Optional,
        uploadFileUri \in Optional, uploadFolderUri \in Optional,
        buildUri \in Optional}

WideNodes ==
    {TreeNode(ServerA,
              getResourceFromWebUrl(ServerUrlText(ServerA), d.uri, <<"u", "1">>),
              d, isServer) :
        d \in WideDescriptors, isServer \in BOOLEAN}

MenusRender ==
    /\ treeNodeTable = <<>>
    /\ GetTreeItem(WideNodes)
MenusDelete == ActionEvent({"delete"}, Rendered)
MenusDialog == DialogAnswered
MenusSettled == ActionSettled
MenusTimer == TimerEnds
MenusDone == HandlerDone
MenusCredentials ==
    /\ ReadCredentials(1)
    /\ UNCHANGED providerVars
MenusLoginResponse ==
    /\ LoginResponds(1, {200}, {<<CookieA>>})
    /\ UNCHANGED providerVars
MenusAfterLogin ==
    /\ LoginReturns(1)
    /\ UNCHANGED providerVars
MenusResponse ==
    /\ RequestResponds(1, {200}, {ActionDone}, {NoHeaders})
    /\ UNCHANGED providerVars

NextMenus ==
    \/ MenusRender
    \/ MenusDelete
    \/ MenusDialog
    \/ MenusSettled
    \/ MenusTimer
    \/ MenusDone
    \/ MenusCredentials
    \/ MenusLoginResponse
    \/ MenusAfterLogin
    \/ MenusResponse

SpecMenus == InitRegistered /\ [][NextMenus]_vars

\* An item descriptor without a deleteUri: the field is missing, null or
\* empty.
WithoutDeleteUri(itemDescriptor) ==
    itemDescriptor.deleteUri \in {<<"undefined">>, <<"null">>, <<>>}

\* C15: for an item descriptor without a deleteUri, whatever its other
\* fields, the context value getTreeItem computes does not contain
\* "_canDelete_" (the pattern of the delete menu entry), and a delete event
\* for the item returns without a confirmation dialog, without a call of
\* the Api and without a request.
C15_NoDeleteWithoutUri ==
    WithoutDeleteUri(handler.item.itemDescriptor) =>
        /\ handler.op = "getTreeItem" =>
              ~Includes(handler.contextValue,
                        <<"_", "c", "a", "n", "D", "e", "l", "e", "t", "e", "_">>)
        /\ handler.op = "delete" =>
              /\ handler.pc = "done"
              /\ handler.prompts = 0
              /\ \A c \in Calls : call[c] = IdleCall
              /\ NothingSent

\* C15 witness: a delete event for a rendered folder whose deleteUri is
\* null and which carries every other capability has returned at once.
C15_Witness ==
    /\ handler.op = "delete" /\ handler.pc = "done"
    /\ handler.item.itemDescriptor.deleteUri = Null
    /\ handler.item.itemDescriptor.isFolder
    /\ \A kind \in ActionKinds \ {"delete"} :
          CapabilityUri(kind, handler.item.itemDescriptor) = <<"/", "v">>
    /\ handler.item.itemDescriptor.id = <<"/", "v">>
    /\ handler.item.itemDescriptor.remoteEditUri = <<"/", "v">>
    /\ MenuMatches(getContextValue(handler.item), CanBuildFlag)
    /\ handler.prompts = 0

(***************************************************************************)
(* Specification SpecServers: the root listing.  The list of known servers *)
(* holds any of the registered servers in any order; the descriptor of     *)
(* each is fetched in turn and the fetch ends in every way the Api knows.  *)
(***************************************************************************)
\* The lists addServer can have built: each server at most once.
KnownServerLists ==
    {<<>>} \cup {<<s>> : s \in Servers}
           \cup {list \in Servers \X Servers : list[1] # list[2]}

InitServers ==
    /\ authenticationCookies = [s \in Servers |-> Undefined]
    /\ secrets = [s \in Servers |-> SecretStored]
    /\ call = [c \in Calls |-> IdleCall]
    /\ knownServers \in KnownServerLists
    /\ treeNodeTable = <<>>
    /\ parentItemLookup = <<>>
    /\ iconData = <<>>
    /\ iconFetches = <<>>
    /\ handler = IdleHandler
    /\ commands = [c \in Calls |-> IdleCommand]
    /\ sharedArrays = {{0}}
    /\ given = {knownServers[i] : i \in 1..Len(knownServers)}
    /\ commandsRun = 0
    /\ jsonValue = NoJson
    /\ sessions = NoSessions

\* getChildren() without an element, up to the loop of getServerNodes.
GetServerNodes ==
    /\ handler.pc = "idle"
    /\ handler' = [IdleHandler EXCEPT !.pc = "loop", !.op = "getServerNodes",
                                      !.servers = knownServers, !.index = 1]
    /\ UNCHANGED <<apiVars, tableVars>>

\* The head of the loop: the next server's descriptor is requested, or the
\* nodes are returned.
NextServer ==
    /\ handler.pc = "loop" /\ handler.op = "getServerNodes"
    /\ IF handler.index > Len(handler.servers)
       THEN /\ handler' = [handler EXCEPT !.pc = "done"]
            /\ UNCHANGED apiVars
       ELSE LET server == handler.servers[handler.index]
            IN /\ handler' = [handler EXCEPT !.pc = "api", !.serverUrl = server]
               /\ ApiCall("getServerDescriptor", server,
                          getApiUrl(server, GetServerPath), "")
    /\ UNCHANGED tableVars

pushAfterFetchUncaught(nodes, server, result) ==
    IF result.kind = "error" THEN nodes
    ELSE Append(nodes, serverNode(server, ServerDescriptor(result.data)))

\* The nodes after one iteration: the inner catch leaves descriptor null
\* and the node is pushed all the same.
pushAfterFetch(nodes, server, result) ==
    Append(nodes,
           serverNode(server,
                      IF result.kind = "error" THEN NoDescriptor
                      ELSE ServerDescriptor(result.data)))

\* getServerDescriptor has settled: the rest of the iteration.
ServerDescribed ==
    /\ ApiSettled /\ handler.op = "getServerNodes"
    /\ call' = [call EXCEPT ![1] = IdleCall]
    /\ handler' =
          [handler EXCEPT
              !.pc = "loop",
              !.index = @ + 1,
              !.nodes = pushAfterFetch(@, handler.servers[handler.index],
                                       call[1].result),
              !.logged = IF ApiError # ""
                         THEN Append(@, [index |-> handler.index,
                                         message |-> ApiError])
                         ELSE @]
    /\ UNCHANGED <<authenticationCookies, secrets, tableVars>>

ServersList == GetServerNodes
ServersNext == NextServer
ServersDescribed == ServerDescribed
ServersDone == HandlerDone
ServersCredentials ==
    /\ ReadCredentials(1)
    /\ UNCHANGED providerVars
ServersLoginResponse ==
    /\ LoginResponds(1, {200, 401}, {<<CookieA>>})
    /\ UNCHANGED providerVars
ServersAfterLogin ==
    /\ LoginReturns(1)
    /\ UNCHANGED providerVars
ServersRequestError ==
    /\ RequestFails(1)
    /\ UNCHANGED providerVars
ServersResponse ==
    /\ RequestResponds(1, {200, 403, 404, 500},
                       {DescriptorCapable, DescriptorPlain}, {NoHeaders})
    /\ UNCHANGED providerVars

NextServers ==
    \/ ServersList
    \/ ServersNext
    \/ ServersDescribed
    \/ ServersDone
    \/ ServersCredentials
    \/ ServersLoginResponse
    \/ ServersAfterLogin
    \/ ServersRequestError
    \/ ServersResponse

SpecServers == InitServers /\ [][NextServers]_vars

\* The root listing has returned its nodes.
RootListed == handler.op = "getServerNodes" /\ handler.pc = "done"

\* The positions of the list whose descriptor fetch failed.
FailedFetches == {handler.logged[k].index : k \in 1..Len(handler.logged)}

\* The host name of a known server, as text.
HostName(server) == Text(server.authority)

C19_WitnessUnauthorized ==
    /\ RootListed
    /\ FailedFetches = {1, 2}
    /\ handler.logged[1].message = UnableToAuthorize
    /\ handler.logged[2].message = AccessDenied

(***************************************************************************)
(* Specification SpecIcons: the icon cache.  Nodes with theme icons and    *)
(* with remote light and dark icons are rendered again and again; each     *)
(* download ends with a status or without a response.                      *)
(***************************************************************************)
\* The renderings that may start a download before the model stops them.
\* A download is recorded with its URL and its status: 0 while it is
\* awaited, -1 when it ended without a response (network error, or the
\* timeout of 10000 ms).
MaxFetches == 3

\* The image a server answers with, and its base64 text.
IconBody == "<svg/>"
Base64(body) == IF body = IconBody THEN <<"P", "H", "N", "2", "Z", "y", "8", "+">> ELSE <<>>

\* "data:image/svg+xml;base64,"
DataUriPrefix == <<"d", "a", "t", "a", ":", "i", "m", "a", "g", "e", "/", "s", "v", "g", "+", "x", "m", "l", ";", "b", "a", "s", "e", "6", "4", ",">>

\* The default validateStatus of the HTTP client: the promise resolves for
\* these statuses and rejects for every other.
validateStatus(status) == status >= 200 /\ status < 300

StatusError(status) ==
    IF status = -1 THEN NetworkError ELSE "Request failed with status code"

\* /^\$\(([^)]+)\)/
IsThemeIcon(uri) ==
    /\ StartsWith(uri, <<"$", "(">>)
    /\ FirstOf(Substring(uri, 2), {")"}) \in 2..(Len(uri) - 2)

ThemeIconName(uri) == Before(Substring(uri, 2), FirstOf(Substring(uri, 2), {")"}))

IconPair(light, dark) ==
    [kind |-> "pair", light |-> UriParse(light),
     dark |-> UriParse(IF dark = Null THEN light ELSE dark)]

\* getTreeItem after getTreeItemIconPair has returned.
treeItemReturned(h, iconPath) ==
    [h EXCEPT !.pc = "done", !.iconPath = iconPath,
              !.contextValue = getContextValue(h.item),
              !.command = treeItemCommand(h.item)]

\* IconCache.getIcon up to its await: the cached value, or a download.
IconCached(data, uri) == uri \in DOMAIN data

\* getTreeItemIconPair from the light icon on: light is what getIcon
\* returned, data the cache at that time.
afterLightIcon(h, light, data) ==
    LET darkUri == h.item.itemDescriptor.iconDark
        darkUrl == getFullyQualifiedUrl(ServerUrlText(h.serverUrl), darkUri)
    IN IF light = Null THEN treeItemReturned(h, [kind |-> "undefined"])
       ELSE IF ~Truthy(darkUri) THEN treeItemReturned(h, IconPair(light, Null))
       ELSE IF IconCached(data, darkUrl)
            THEN treeItemReturned(h, IconPair(light, data[darkUrl]))
       ELSE [h EXCEPT !.pc = "dark", !.light = light, !.url = darkUrl]

\* The downloads after the handler has moved on: one more when it awaits
\* an icon that the one before did not.
fetchesAfter(before, h, fetches) ==
    IF h.pc \in {"light", "dark"} /\ (before.pc # h.pc)
    THEN Append(fetches, [uri |-> h.url, status |-> 0])
    ELSE fetches

\* getTreeItem for an element with an icon, up to the first download.
GetTreeItemIcon(elements) ==
    /\ handler.pc = "idle"
    /\ Len(iconFetches) < MaxFetches
    /\ \E element \in elements :
          /\ Truthy(element.itemDescriptor.icon)
          /\ LET uri == element.itemDescriptor.icon
                 url == getFullyQualifiedUrl(ServerUrlText(element.serverUrl), uri)
                 started == [IdleHandler EXCEPT !.op = "getTreeItem", !.item = element,
                                                !.serverUrl = element.serverUrl]
                 next == IF IsThemeIcon(uri)
                         THEN treeItemReturned(started, [kind |-> "theme",
                                                         id |-> ThemeIconName(uri)])
                         ELSE IF IconCached(iconData, url)
                         THEN afterLightIcon(started, iconData[url], iconData)
                         ELSE [started EXCEPT !.pc = "light", !.url = url]
             IN /\ handler' = next
                /\ iconFetches' = fetchesAfter(started, next, iconFetches)
                /\ treeNodeTable' =
                      IF next.pc = "done"
                      THEN Put(treeNodeTable, {NodeKey(element)}, element)
                      ELSE treeNodeTable
    /\ UNCHANGED <<apiVars, knownServers, parentItemLookup, iconData, commandVars>>

\* What getIcon writes to the cache when its download has ended with the
\* status: nothing when the client has rejected and getIcon has thrown, the
\* tombstone for an accepted status other than 200.
tombstone(data, uri, status) ==
    IF validateStatus(status) /\ status # 200 THEN Put(data, {uri}, Null) ELSE data

\* The download getIcon awaits has ended: the rest of getIcon, of
\* getTreeItemIconPair and of getTreeItem.
IconFetched(statuses) ==
    /\ handler.pc \in {"light", "dark"}
    /\ \E status \in statuses :
          LET uri == handler.url
              icon == DataUriPrefix \o Base64(IconBody)
              data == IF status = 200 THEN Put(iconData, {uri}, icon)
                      ELSE tombstone(iconData, uri, status)
              returned == IF status = 200 THEN icon ELSE Null
              next == IF ~validateStatus(status)
                      THEN [treeItemReturned(handler, [kind |-> "undefined"])
                               EXCEPT !.logged = Append(@, [index |-> 0,
                                                            message |-> StatusError(status)])]
                      ELSE IF handler.pc = "light"
                      THEN afterLightIcon(handler, returned, data)
                      ELSE treeItemReturned(handler, IconPair(handler.light, returned))
              ended == [iconFetches EXCEPT ![Len(iconFetches)].status = status]
          IN /\ iconData' = data
             /\ handler' = next
             /\ iconFetches' = fetchesAfter(handler, next, ended)
             /\ treeNodeTable' =
                   IF next.pc = "done"
                   THEN Put(treeNodeTable, {NodeKey(handler.item)}, handler.item)
                   ELSE treeNodeTable
    /\ UNCHANGED <<apiVars, knownServers, parentItemLookup, commandVars>>

\* The icons of the rendered nodes: a theme icon, an absolute URL, a path
\* on the server, a relative path.
ThemeIconText == <<"$", "(", "f", "i", "l", "e", ")">>
LightIconText == <<"h", "t", "t", "p", "s", ":", "/", "/", "a", ".", "t", "e", "s", "t", "/", "i", ".", "s", "v", "g">>
DarkIconText == <<"/", "d", ".", "s", "v", "g">>
RelativeIconText == <<"x", ".", "s", "v", "g">>

IconNode(path, icon, iconDark) ==
    TreeNode(ServerA,
             getResourceFromWebUrl(ServerUrlText(ServerA), ApiPrefix \o path, <<>>),
             [NoDescriptor EXCEPT !.displayName = <<"n">>, !.uri = ApiPrefix \o path,
                                  !.icon = icon, !.iconDark = iconDark],
             FALSE)

IconNodes ==
    {IconNode(<<"/", "f">>, ThemeIconText, Undefined),
     IconNode(<<"/", "f">>, LightIconText, Undefined),
     IconNode(<<"/", "f">>, LightIconText, DarkIconText),
     IconNode(<<"/", "f">>, DarkIconText, DarkIconText),
     IconNode(<<"/", "f">>, RelativeIconText, Null)}

IconStatuses == {200, 204, 404, 500}

IconsRender == GetTreeItemIcon(IconNodes)
IconsResponse == IconFetched(IconStatuses)
IconsRequestError == IconFetched({-1})
IconsDone == HandlerDone

NextIcons ==
    \/ IconsRender
    \/ IconsResponse
    \/ IconsRequestError
    \/ IconsDone

SpecIcons == Init /\ [][NextIcons]_vars

\* The downloads that have failed: an error status, not found, or no
\* response.
FailedFetch(fetch) == fetch.status = -1 \/ fetch.status >= 400

\* C20: after a download of the icon URL u has failed (error status, not
\* found or network error) the cache holds the tombstone for u, and no
\* later getIcon(u) starts another download.
C20_TombstoneAfterFailure ==
    \A k \in 1..Len(iconFetches) :
        FailedFetch(iconFetches[k]) =>
            /\ IconCached(iconData, iconFetches[k].uri)
            /\ iconData[iconFetches[k].uri] = Null
            /\ \A j \in (k + 1)..Len(iconFetches) :
                  iconFetches[j].uri # iconFetches[k].uri

\* What the cache does keep: a download that ended with an accepted status
\* other than 200 leaves the tombstone, and a URL in the cache is never
\* downloaded again.
C20_CachedNeverFetchedAgain ==
    \A k \in 1..Len(iconFetches) :
        validateStatus(iconFetches[k].status) =>
            /\ IconCached(iconData, iconFetches[k].uri)
            /\ (iconFetches[k].status # 200 => iconData[iconFetches[k].uri] = Null)
            /\ \A j \in (k + 1)..Len(iconFetches) :
                  iconFetches[j].uri # iconFetches[k].uri

\* The same URL is downloaded, fails with 404 and is downloaded again.
C20_FetchedAgain ==
    /\ Len(iconFetches) >= 2
    /\ iconFetches[1].status = 404
    /\ iconFetches[2].uri = iconFetches[1].uri
    /\ ~IconCached(iconData, iconFetches[1].uri)


(***************************************************************************)
(* Specification SpecCommands: the commands addServer and removeServer.    *)
(* Each slot runs one command at a time; the login a command starts runs   *)
(* in the call slot of the same number.  The commands hold the array that  *)
(* globalState.get returned: sharedArrays has the sets of holders (0 for   *)
(* globalState, c for the local knownServers of command c) that hold the   *)
(* same array object.                                                       *)
(***************************************************************************)
\* The number of commands the person runs.
MaxCommands == 3

\* "a b:c", a text whose scheme has a space.
MalformedUrl == <<"a", " ", "b", ":", "c">>

\* What the URL input box may return: undefined (cancelled), the empty
\* text, a host name, a server URL, a URL with a path, a malformed URL.
AddServerInputs ==
    {Undefined, <<>>, Text("a.test"), ServerUrlText(ServerA),
     ServerUrlText(ServerB) \o <<"/", "x">>, MalformedUrl}

UsernameInputs == {"undefined", "", "u2"}
PasswordInputs == {"undefined", "", "p2"}

\* \w of a regular expression.
WordCharacters ==
    {UpperCaseLetters[k] : k \in 1..26} \cup {LowerCaseLetters[k] : k \in 1..26}
    \cup {"0", "1", "2", "3", "4", "5", "6", "7", "8", "9", "_"}

\* _schemePattern of vscode.Uri: /^\w[\w\d+.-]*$/
schemePattern(scheme) ==
    /\ scheme # <<>>
    /\ scheme[1] \in WordCharacters
    /\ \A i \in 1..Len(scheme) : scheme[i] \in WordCharacters \cup {"+", ".", "-"}

\* vscode.Uri.parse throws for a scheme with illegal characters.
UriParseThrows(value) == ~schemePattern(UriParse(value).scheme)

InvalidServerUrl == "Invalid server URL specified."
ServerAlreadyExists == "Server already exists."
UnableToLogin ==
    "Unable to login. Please check server URL and credentials and try again."

\* getAddServerUrl after the input box has returned: the standardized URL,
\* undefined when nothing was typed, or "throw" for the catch block.
standardizedUrl(typed) ==
    IF ~Truthy(typed) THEN Undefined
    ELSE IF UriParseThrows(typed) THEN <<"throw">>
    ELSE IF UriParse(typed).scheme = Text("file")
    THEN Text("https") \o SchemeSeparator \o typed
    ELSE UriParse(typed).scheme \o SchemeSeparator \o UriParse(typed).authority

\* The server a server URL names.
ServerNamed(serverUrl) == CHOOSE s \in Servers : ServerUrlText(s) = serverUrl

\* What an input box returned is neither undefined nor empty.
Entered(answer) == answer \notin {"undefined", ""}

\* Array.prototype.includes
ArrayIncludes(arr, value) == \E i \in 1..Len(arr) : arr[i] = value

\* Array.prototype.findIndex(s => s === value), counted from 1; 0 for -1.
findIndex(arr, value) ==
    IF ArrayIncludes(arr, value)
    THEN CHOOSE i \in 1..Len(arr) :
            arr[i] = value /\ \A j \in 1..(i - 1) : arr[j] # value
    ELSE 0

\* Array.prototype.splice(index, 1)
splice(arr, index) == SubSeq(arr, 1, index - 1) \o SubSeq(arr, index + 1, Len(arr))

\* The holders of the array object that holder h holds.
ArrayHolders(classes, h) ==
    IF \E k \in classes : h \in k
    THEN CHOOSE k \in classes : h \in k
    ELSE {h}

HoldersWith(h) == ArrayHolders(sharedArrays, h)

\* Holder h lets go of its array.
Released(classes, h) == {k \ {h} : k \in classes} \ {{}}

\* Holder h now holds a new array object, or the array object of other.
HoldsNew(classes, h) == Released(classes, h) \cup {{h}}
HoldsArrayOf(classes, h, other) ==
    IF h \in ArrayHolders(classes, other) THEN classes
    ELSE {IF other \in k THEN k \cup {h} ELSE k : k \in Released(classes, h)}

\* globalState.get("KnownServers", []) of command c: the stored array
\* object, or a new empty array when nothing is stored.
globalStateGet(c) ==
    IF 0 \in UNION sharedArrays
    THEN [value |-> knownServers, holders |-> HoldsArrayOf(sharedArrays, c, 0)]
    ELSE [value |-> <<>>, holders |-> HoldsNew(sharedArrays, c)]

\* The commands after command c, now rec, has changed its array in place
\* to value: every command that holds the same array object sees it.
ArrayChanged(c, rec, value, holders) ==
    [d \in Calls |->
        IF d = c THEN [rec EXCEPT !.knownServers = value]
        ELSE IF d \in holders THEN [commands[d] EXCEPT !.knownServers = value]
        ELSE commands[d]]

\* globalState.update("KnownServers", value) by command c: the memento
\* keeps the array object it was given, or (later hosts) a copy of it.
globalStateUpdate(classes, c, value) ==
    /\ knownServers' = value
    /\ \E copies \in BOOLEAN :
          sharedArrays' = IF copies THEN HoldsNew(classes, 0)
                          ELSE IF 0 \in ArrayHolders(classes, c) THEN classes
                          ELSE {IF c \in k THEN k \cup {0} ELSE k :
                                  k \in Released(classes, 0)}

emitServerAddedToBothEvents(rec) == [rec EXCEPT !.emitted = @ + 2]

\* events.emitServerAdded() by the command rec: the emitter calls the one
\* listener of "serverAdded", onKnownServersChanged of the provider, which
\* fires the change of the whole tree (didChangeTreeData.fire(undefined)).
emitServerAdded(rec) == [rec EXCEPT !.emitted = @ + 1]

\* The command returns.
Returned(rec, outcome) == [rec EXCEPT !.pc = "done", !.outcome = outcome]

\* Command d waits at an input box or at the modal confirmation.  The
\* window shows one of them at a time, so the person runs the next command
\* only when none is open.
Prompting(d) == commands[d].pc \in {"serverUrl", "username", "password", "confirm"}

\* The person runs "magnus.addServer": addServer up to the first input box.
AddServer(c) ==
    /\ commands[c].pc = "idle"
    /\ \A d \in Calls : ~Prompting(d)
    /\ commandsRun < MaxCommands
    /\ commandsRun' = commandsRun + 1
    /\ commands' = [commands EXCEPT ![c] = [IdleCommand EXCEPT !.pc = "serverUrl",
                                                               !.op = "add"]]
    /\ UNCHANGED <<apiVars, knownServers, sharedArrays, given>>

\* The URL input box returns: the rest of getAddServerUrl and addServer up
\* to the username input box.
ServerUrlEntered(c) ==
    /\ commands[c].pc = "serverUrl"
    /\ \E typed \in AddServerInputs :
          LET serverUrl == standardizedUrl(typed)
          IN IF serverUrl = <<"throw">>
             THEN /\ commands' = [commands EXCEPT ![c].pc = "invalid",
                                                  ![c].messages = Append(@, InvalidServerUrl)]
                  /\ UNCHANGED given
             ELSE IF ~Truthy(serverUrl)
             THEN /\ commands' = [commands EXCEPT ![c] = Returned(@, "cancelled")]
                  /\ UNCHANGED given
             ELSE /\ commands' = [commands EXCEPT ![c].pc = "username",
                                                  ![c].serverUrl = serverUrl]
                  /\ given' = given \cup {ServerNamed(serverUrl)}
    /\ UNCHANGED <<apiVars, knownServers, sharedArrays, commandsRun>>

\* The username input box returns.
UsernameEntered(c) ==
    /\ commands[c].pc = "username"
    /\ \E username \in UsernameInputs :
          commands' = [commands EXCEPT ![c] =
                         IF ~Entered(username) THEN Returned(@, "cancelled")
                         ELSE [@ EXCEPT !.pc = "password", !.username = username]]
    /\ UNCHANGED <<apiVars, knownServers, sharedArrays, given, commandsRun>>

\* The value of `!api.login(serverUrl, username, password)` in addServer:
\* login is async and the call is not awaited, so the operand is a Promise,
\* which is truthy whatever the login will return.
loginRefused(promise) == FALSE

\* The password input box returns: addServer up to its next await, which is
\* the "already exists" message or saveCredentials.  The login is called on
\* the way and goes on by itself.
PasswordEntered(c) ==
    /\ commands[c].pc = "password"
    /\ \E password \in PasswordInputs :
          IF ~Entered(password)
          THEN /\ commands' = [commands EXCEPT ![c] = Returned(@, "cancelled")]
               /\ UNCHANGED <<call, sharedArrays>>
          ELSE LET got == globalStateGet(c)
                   server == ServerNamed(commands[c].serverUrl)
                   rec == [commands[c] EXCEPT !.password = password,
                                              !.knownServers = got.value]
               IN /\ sharedArrays' = got.holders
                  /\ IF ArrayIncludes(got.value, server)
                     THEN /\ commands' =
                                [commands EXCEPT ![c] =
                                    [rec EXCEPT !.pc = "exists",
                                                !.messages = Append(@, ServerAlreadyExists)]]
                          /\ UNCHANGED call
                     ELSE /\ call[c].pc = "idle"
                          /\ call' = [call EXCEPT ![c] =
                                        BeginLogin([IdleCall EXCEPT
                                                       !.op = "login",
                                                       !.serverUrl = server,
                                                       !.username = rec.username,
                                                       !.password = password])]
                          /\ commands' =
                                [commands EXCEPT ![c] =
                                    IF loginRefused(call'[c])
                                    THEN [rec EXCEPT !.pc = "refused", !.login = TRUE,
                                                     !.messages = Append(@, UnableToLogin)]
                                    ELSE [rec EXCEPT !.pc = "save", !.login = TRUE]]
    /\ UNCHANGED <<authenticationCookies, secrets, knownServers, given, commandsRun>>

\* The person closes a message of addServer, which returns.
MessageClosed(c) ==
    /\ commands[c].pc \in {"invalid", "exists", "refused"}
    /\ commands' = [commands EXCEPT ![c] = Returned(@, commands[c].pc)]
    /\ UNCHANGED <<apiVars, knownServers, sharedArrays, given, commandsRun>>

\* saveCredentials settles with the credentials stored: the rest of
\* addServer.
CredentialsSaved(c) ==
    /\ commands[c].pc = "save"
    /\ LET server == ServerNamed(commands[c].serverUrl)
           pushed == Append(commands[c].knownServers, server)
           rec == emitServerAdded([Returned(commands[c], "added")
                                      EXCEPT !.saved = TRUE, !.updated = TRUE])
       IN /\ secrets' = [secrets EXCEPT ![server] =
                            [kind |-> "json", username |-> commands[c].username,
                             password |-> commands[c].password]]
          /\ commands' = ArrayChanged(c, rec, pushed, HoldersWith(c))
          /\ globalStateUpdate(sharedArrays, c, pushed)
          /\ given' = given \cup {server}
    /\ UNCHANGED <<authenticationCookies, call, commandsRun>>

\* The person runs "magnus.removeServer" on a server node of the tree:
\* removeServer up to its confirmation.
RemoveServer(c) ==
    /\ commands[c].pc = "idle"
    /\ \A d \in Calls : ~Prompting(d)
    /\ commandsRun < MaxCommands
    /\ commandsRun' = commandsRun + 1
    /\ \E i \in 1..Len(knownServers) :
          commands' = [commands EXCEPT ![c] =
                         [IdleCommand EXCEPT !.pc = "confirm", !.op = "remove",
                                             !.serverUrl = ServerUrlText(knownServers[i])]]
    /\ UNCHANGED <<apiVars, knownServers, sharedArrays, given>>

\* The titles of the buttons of the confirmation; undefined when the
\* message was dismissed.
Confirmations == {"Yes", "No", "undefined"}

\* The confirmation returns: removeServer up to the await of
\* deleteCredentials.
ConfirmationAnswered(c) ==
    /\ commands[c].pc = "confirm"
    /\ \E confirmation \in Confirmations :
          IF confirmation # "Yes"
          THEN /\ commands' = [commands EXCEPT ![c] = Returned(@, "cancelled")]
               /\ UNCHANGED <<knownServers, sharedArrays, given>>
          ELSE LET got == globalStateGet(c)
                   server == ServerNamed(commands[c].serverUrl)
                   serverIndex == findIndex(got.value, server)
               IN IF serverIndex = 0
                  THEN /\ commands' = [commands EXCEPT ![c] =
                                          Returned([@ EXCEPT !.knownServers = got.value],
                                                   "missing")]
                       /\ sharedArrays' = got.holders
                       /\ UNCHANGED <<knownServers, given>>
                  ELSE /\ commands' =
                             ArrayChanged(c, emitServerAdded([commands[c] EXCEPT
                                                                 !.pc = "delete",
                                                                 !.updated = TRUE]),
                                          splice(got.value, serverIndex),
                                          ArrayHolders(got.holders, c))
                       /\ globalStateUpdate(got.holders, c,
                                            splice(got.value, serverIndex))
                       /\ given' = given \ {server}
    /\ UNCHANGED <<apiVars, commandsRun>>

\* deleteCredentials settles with the entry removed: removeServer returns.
CredentialsDeleted(c) ==
    /\ commands[c].pc = "delete"
    /\ secrets' = [secrets EXCEPT ![ServerNamed(commands[c].serverUrl)] = SecretAbsent]
    /\ commands' = [commands EXCEPT ![c] = [Returned(@, "removed") EXCEPT !.deleted = TRUE]]
    /\ UNCHANGED <<authenticationCookies, call, knownServers, sharedArrays, given, commandsRun>>

\* The locals of a returned command are gone; the slot is free.
CommandEnds(c) ==
    /\ commands[c].pc = "done"
    /\ commands' = [commands EXCEPT ![c] = IdleCommand]
    /\ sharedArrays' = Released(sharedArrays, c)
    /\ UNCHANGED <<apiVars, knownServers, given, commandsRun>>

\* The login requests of the commands are answered with or without a
\* session cookie, or not at all.
CommandsLoginResponds(c) ==
    /\ LoginResponds(c, {200, 401}, {<<CookieA>>})
    /\ UNCHANGED providerVars

CommandsLoginFails(c) ==
    /\ LoginFails(c)
    /\ UNCHANGED providerVars

\* Nobody takes the result of the login of addServer; its slot is free once
\* the command that called it is over.
CommandsLoginOver(c) ==
    /\ commands[c].pc = "idle"
    /\ Return(c)
    /\ UNCHANGED providerVars

commandFrame ==
    <<treeNodeTable, parentItemLookup, iconData, iconFetches, handler, jsonValue,
      sessions>>

CommandsAddServer == \E c \in Calls : AddServer(c) /\ UNCHANGED commandFrame
CommandsServerUrlEntered == \E c \in Calls : ServerUrlEntered(c) /\ UNCHANGED commandFrame
CommandsUsernameEntered == \E c \in Calls : UsernameEntered(c) /\ UNCHANGED commandFrame
CommandsPasswordEntered == \E c \in Calls : PasswordEntered(c) /\ UNCHANGED commandFrame
CommandsMessageClosed == \E c \in Calls : MessageClosed(c) /\ UNCHANGED commandFrame
CommandsCredentialsSaved == \E c \in Calls : CredentialsSaved(c) /\ UNCHANGED commandFrame
CommandsRemoveServer == \E c \in Calls : RemoveServer(c) /\ UNCHANGED commandFrame
CommandsConfirmationAnswered ==
    \E c \in Calls : ConfirmationAnswered(c) /\ UNCHANGED commandFrame
CommandsCredentialsDeleted == \E c \in Calls : CredentialsDeleted(c) /\ UNCHANGED commandFrame
CommandsCommandEnds == \E c \in Calls : CommandEnds(c) /\ UNCHANGED commandFrame

\* Nothing is registered when the extension is first activated.
InitUnregistered ==
    /\ authenticationCookies = [s \in Servers |-> Undefined]
    /\ secrets = [s \in Servers |-> SecretAbsent]
    /\ call = [c \in Calls |-> IdleCall]
    /\ InitProvider

NextCommands ==
    \/ CommandsAddServer
    \/ CommandsServerUrlEntered
    \/ CommandsUsernameEntered
    \/ CommandsPasswordEntered
    \/ CommandsMessageClosed
    \/ CommandsCredentialsSaved
    \/ CommandsRemoveServer
    \/ CommandsConfirmationAnswered
    \/ CommandsCredentialsDeleted
    \/ CommandsCommandEnds
    \/ \E c \in Calls : CommandsLoginResponds(c)
    \/ \E c \in Calls : CommandsLoginFails(c)
    \/ \E c \in Calls : CommandsLoginOver(c)

SpecCommands == InitUnregistered /\ [][NextCommands]_vars

\* The login of the addServer command in slot c has returned.
LoginSettled(c) == call[c].op = "login" /\ call[c].pc = "done"

\* C21: addServer appends the server URL to the known-servers list and
\* writes its credentials to the credential store only if the login with
\* the entered username and password has succeeded: a command whose login
\* has returned false has stored nothing.
C21_LoginBeforePersisting ==
    \A c \in Calls :
        (commands[c].op = "add" /\ LoginSettled(c) /\ call[c].loginResult # "true")
            => ~commands[c].saved /\ ~commands[c].updated

\* C22: whatever addServer and removeServer commands have run, and however
\* they interleave, the known-servers list has no URL twice and has only
\* URLs that were given to addServer and have not been removed since.
C22_KnownServersList ==
    /\ \A i, j \in 1..Len(knownServers) :
          knownServers[i] = knownServers[j] => i = j
    /\ \A i \in 1..Len(knownServers) : knownServers[i] \in given

\* The confirmed removeServer in slot c has returned, and its URL has not
\* been given to addServer again.
Removed(c) ==
    /\ commands[c].op = "remove"
    /\ commands[c].pc = "done"
    /\ commands[c].outcome \in {"removed", "missing"}
    /\ ServerNamed(commands[c].serverUrl) \notin given

\* C23: once a confirmed removeServer for a URL has returned, the URL is
\* not in the known-servers list, the credential store has no entry for it
\* and the token cache has no entry for it.
C23_RemovedEverywhere ==
    \A c \in Calls :
        Removed(c) =>
            /\ ~ArrayIncludes(knownServers, ServerNamed(commands[c].serverUrl))
            /\ secrets[ServerNamed(commands[c].serverUrl)] = SecretAbsent
            /\ authenticationCookies[ServerNamed(commands[c].serverUrl)] = Undefined

\* The addServer command in slot c was aborted: no URL or a malformed one,
\* a cancelled prompt, a URL already in the list, or a login that failed.
Aborted(c) ==
    /\ commands[c].op = "add"
    /\ commands[c].pc = "done"
    /\ \/ commands[c].outcome \in {"cancelled", "invalid", "exists", "refused"}
       \/ LoginSettled(c) /\ call[c].loginResult # "true"

\* C24: an aborted addServer has written neither the known-servers list
\* nor the credential store and has emitted no server-added signal.
C24_AbortedAddServer ==
    \A c \in Calls :
        Aborted(c) => /\ ~commands[c].saved
                      /\ ~commands[c].updated
                      /\ commands[c].emitted = 0

\* What getServerNodes will read: globalState.get("KnownServers", []).
ListRead == knownServers

\* A command that has changed the known-servers list and is over, or waits
\* for deleteCredentials, has fired the change of the whole tree once; a
\* command that has not changed it has fired nothing.
C31_OneSignal ==
    \A c \in Calls :
        /\ (commands[c].updated /\ commands[c].pc \in {"done", "delete"})
              => commands[c].emitted = 1
        /\ ~commands[c].updated => commands[c].emitted = 0

\* In the step that fires the signal the stored list is already the list
\* the command has made: the one it read with the server appended, or
\* with the first entry of the server taken out.
C31_SignalAfterList ==
    \A c \in Calls :
        commands'[c].emitted > commands[c].emitted =>
            LET server == ServerNamed(commands[c].serverUrl)
            IN /\ ListRead' = commands'[c].knownServers
               /\ commands'[c].updated /\ ~commands[c].updated
               /\ IF commands[c].op = "add"
                  THEN ListRead' = Append(commands[c].knownServers, server)
                  ELSE /\ ArrayIncludes(ListRead, server)
                       /\ ListRead' = splice(ListRead, findIndex(ListRead, server))

\* C31: every add-server or remove-server command that has changed the
\* known-servers list fires the change of the whole tree exactly once, and
\* when it fires the list the next root listing reads holds the change.
C31_SignalAfterChange ==
    /\ []C31_OneSignal
    /\ [][C31_SignalAfterList]_vars

\* C31 witness: while an addServer waits for saveCredentials another
\* command has changed the list; the first has then stored its own list and
\* fired once.
C31_Witness ==
    \E c, d \in Calls :
        /\ c # d
        /\ commands[c].op = "add" /\ commands[c].pc = "done"
        /\ commands[c].updated /\ commands[c].emitted = 1
        /\ commands[d].updated /\ commands[d].emitted = 1
        /\ knownServers = commands[c].knownServers
        /\ Len(knownServers) >= 1

\* A removeServer has spliced the list and fired; deleteCredentials is
\* awaited.
C31_WitnessRemove ==
    \E c \in Calls :
        /\ commands[c].op = "remove" /\ commands[c].pc = "delete"
        /\ commands[c].emitted = 1
        /\ ~ArrayIncludes(knownServers, ServerNamed(commands[c].serverUrl))

(***************************************************************************)
(* Specification SpecJson: the reviver of jsonParse.  A decoded value is   *)
(* its type and its members in the order of their keys: the properties of  *)
(* an object, the elements of an array under their indices.                *)
(***************************************************************************)
MaxJsonDepth == 2
MaxMembers == 2

JsonNumber == [t |-> "number", members |-> <<>>]
JsonNull == [t |-> "null", members |-> <<>>]

\* "A", "a", "AB"
JsonKeys == {<<"A">>, <<"a">>, <<"A", "B">>}

\* The key of the element of an array at position i.
IndexKey(i) == <<Digits[i]>>

\* The lists of keys of an object: no key twice.
KeyLists ==
    {keys \in UNION {[1..n -> JsonKeys] : n \in 1..MaxMembers} :
        \A i, j \in 1..Len(keys) : keys[i] = keys[j] => i = j}

IndexLists == {[i \in 1..n |-> IndexKey(i)] : n \in 1..MaxMembers}

\* The members under keys: numbers, and last under the last key.
MembersOf(keys, last) ==
    [i \in 1..Len(keys) |->
        [key |-> keys[i], value |-> IF i = Len(keys) THEN last ELSE JsonNumber]]

\* The decoded values nested at most depth deep.
RECURSIVE JsonValues(_)
JsonValues(depth) ==
    IF depth = 0 THEN {JsonNumber, JsonNull}
    ELSE JsonValues(depth - 1)
         \cup {[t |-> "object", members |-> <<>>], [t |-> "array", members |-> <<>>]}
         \cup {[t |-> "object", members |-> MembersOf(keys, last)] :
                  keys \in KeyLists, last \in JsonValues(depth - 1)}
         \cup {[t |-> "array", members |-> MembersOf(keys, last)] :
                  keys \in IndexLists, last \in JsonValues(depth - 1)}

\* /^[A-Z]/.test(valueKey)
startsUpperCase(valueKey) ==
    /\ valueKey # <<>>
    /\ \E k \in 1..26 : UpperCaseLetters[k] = valueKey[1]

\* valueKey.charAt(0).toLocaleLowerCase() + valueKey.substring(1)
camelCaseKeyWithoutFirst(valueKey) == Substring(valueKey, 1)

camelCaseKey(valueKey) == toLowerCase(<<valueKey[1]>>) \o Substring(valueKey, 1)

HasMember(members, key) == \E i \in 1..Len(members) : members[i].key = key

MemberValue(members, key) ==
    members[CHOOSE i \in 1..Len(members) : members[i].key = key].value

\* valueObject[key] = value: an existing property keeps its place.
SetMember(members, key, value) ==
    IF HasMember(members, key)
    THEN [i \in 1..Len(members) |->
            IF members[i].key = key THEN [key |-> key, value |-> value] ELSE members[i]]
    ELSE Append(members, [key |-> key, value |-> value])

\* delete valueObject[key]
DeleteMember(members, key) == SelectSeq(members, LAMBDA m : m.key # key)

\* The for-in loop of toCamelCaseReviver over the keys the object had when
\* the loop began (a key deleted before its turn is skipped, a key added
\* during the loop does not begin with a capital).
RECURSIVE renameKeys(_, _)
renameKeys(members, keys) ==
    IF keys = <<>> THEN members
    ELSE IF HasMember(members, Head(keys)) /\ startsUpperCase(Head(keys))
    THEN renameKeys(DeleteMember(SetMember(members, camelCaseKey(Head(keys)),
                                           MemberValue(members, Head(keys))),
                                 Head(keys)),
                    Tail(keys))
    ELSE renameKeys(members, Tail(keys))

KeysOf(members) == [i \in 1..Len(members) |-> members[i].key]

toCamelCaseReviver(value) ==
    IF value.t \in {"object", "array"}
    THEN [t |-> value.t, members |-> renameKeys(value.members, KeysOf(value.members))]
    ELSE value

reviveTopLevel(value) == toCamelCaseReviver(value)

\* JSON.parse with the reviver: the members of a value are revived before
\* the value itself.
RECURSIVE revive(_)
revive(value) ==
    toCamelCaseReviver(
        [t |-> value.t,
         members |-> [i \in 1..Len(value.members) |->
                         [key |-> value.members[i].key,
                          value |-> revive(value.members[i].value)]]])

\* A response body has been decoded.
InitJson ==
    /\ authenticationCookies = [s \in Servers |-> Undefined]
    /\ secrets = [s \in Servers |-> SecretStored]
    /\ call = [c \in Calls |-> IdleCall]
    /\ knownServers = <<>>
    /\ treeNodeTable = <<>>
    /\ parentItemLookup = <<>>
    /\ iconData = <<>>
    /\ iconFetches = <<>>
    /\ handler = IdleHandler
    /\ commands = [c \in Calls |-> IdleCommand]
    /\ sharedArrays = {}
    /\ given = {}
    /\ commandsRun = 0
    /\ sessions = NoSessions
    /\ jsonValue \in {[decoded |-> v, previous |-> v, value |-> v, revived |-> 0] :
                        v \in JsonValues(MaxJsonDepth)}

\* The value is revived, the first time by jsonParse, then once more.
Revive ==
    /\ jsonValue.revived < 2
    /\ jsonValue' = [jsonValue EXCEPT !.previous = jsonValue.value,
                                      !.value = revive(jsonValue.value),
                                      !.revived = @ + 1]
    /\ UNCHANGED <<apiVars, knownServers, treeNodeTable, parentItemLookup, iconData,
                   iconFetches, handler, commands, sharedArrays, given, commandsRun,
                   sessions>>

NextJson == Revive

SpecJson == InitJson /\ [][NextJson]_vars

\* C25: the key-casing normalisation is idempotent: reviving a revived
\* value changes nothing.
C25_ReviverIdempotent ==
    jsonValue.revived = 2 => jsonValue.value = jsonValue.previous

\* A nested object with the keys "A" and "a" under a capital key has been
\* revived twice: the two keys have become one, the capital key is gone.
C25_Witness ==
    /\ jsonValue.revived = 2
    /\ jsonValue.decoded.t = "object"
    /\ \E i \in 1..Len(jsonValue.decoded.members) :
          /\ jsonValue.decoded.members[i].key = <<"A", "B">>
          /\ KeysOf(jsonValue.decoded.members[i].value.members) = <<<<"A">>, <<"a">>>>
          /\ jsonValue.decoded.members[i].value.t = "object"
    /\ ~HasMember(jsonValue.value.members, <<"A", "B">>)
    /\ KeysOf(MemberValue(jsonValue.value.members, <<"a", "B">>).members) = <<<<"a">>>>

\* The key with its leading character in lower case.
LowerFirst(key) ==
    IF key = <<>> THEN key ELSE toLowerCase(<<key[1]>>) \o Tail(key)

\* The members of an object whose keys become the key lowered.
Becoming(members, lowered) ==
    {i \in 1..Len(members) : LowerFirst(members[i].key) = lowered}

\* The value after is the value before with the leading character of every
\* key of every object in lower case, nothing else changed and no key
\* lost.
RECURSIVE KeysLowered(_, _)
KeysLowered(before, after) ==
    IF before.t \notin {"object", "array"} THEN after = before
    ELSE /\ after.t = before.t
         /\ Len(after.members) = Len(before.members)
         /\ IF before.t = "array"
            THEN \A i \in 1..Len(before.members) :
                    /\ after.members[i].key = before.members[i].key
                    /\ KeysLowered(before.members[i].value, after.members[i].value)
            ELSE \A i \in 1..Len(before.members) :
                    /\ HasMember(after.members, LowerFirst(before.members[i].key))
                    /\ KeysLowered(before.members[i].value,
                                   MemberValue(after.members,
                                               LowerFirst(before.members[i].key)))

\* As KeysLowered, but the keys of an object that become the same key
\* become one key, which has the value of the key that began with a capital.
RECURSIVE KeysMerged(_, _)
KeysMerged(before, after) ==
    IF before.t \notin {"object", "array"} THEN after = before
    ELSE /\ after.t = before.t
         /\ IF before.t = "array"
            THEN /\ Len(after.members) = Len(before.members)
                 /\ \A i \in 1..Len(before.members) :
                       /\ after.members[i].key = before.members[i].key
                       /\ KeysMerged(before.members[i].value, after.members[i].value)
            ELSE /\ {after.members[i].key : i \in 1..Len(after.members)}
                       = {LowerFirst(before.members[i].key) : i \in 1..Len(before.members)}
                 /\ \A i, j \in 1..Len(after.members) :
                       after.members[i].key = after.members[j].key => i = j
                 /\ \A i \in 1..Len(before.members) :
                       LET lowered == LowerFirst(before.members[i].key)
                       IN (\/ Becoming(before.members, lowered) = {i}
                           \/ startsUpperCase(before.members[i].key)) =>
                             KeysMerged(before.members[i].value,
                                        MemberValue(after.members, lowered))

\* The body has been decoded by jsonParse.
Decoded == jsonValue.revived = 1

\* C35 (as claimed): decoding lowers the leading character of every key
\* that begins with a capital, in every object at every depth, leaves the
\* other keys, the values and the arrays as they are and never reduces the
\* number of keys of an object.
C35_KeysLowered ==
    Decoded => KeysLowered(jsonValue.decoded, jsonValue.value)

\* C35 (amended): as claimed, except that keys of one object which differ
\* only in the case of their leading character become one key, with the
\* value of the key that began with a capital.
C35_KeysMerged ==
    Decoded => KeysMerged(jsonValue.decoded, jsonValue.value)

\* C35 witness: an array whose last element is an object with the keys "a"
\* and "AB" has been decoded: the array has kept its elements and the
\* object has the keys "a" and "aB".
C35_Witness ==
    /\ Decoded
    /\ jsonValue.decoded.t = "array" /\ Len(jsonValue.decoded.members) = 2
    /\ jsonValue.decoded.members[2].value.t = "object"
    /\ KeysOf(jsonValue.decoded.members[2].value.members) = <<<<"a">>, <<"A", "B">>>>
    /\ jsonValue.value.t = "array" /\ Len(jsonValue.value.members) = 2
    /\ KeysOf(jsonValue.value.members[2].value.members) = <<<<"a">>, <<"a", "B">>>>

\* An object with the keys "a" and "A" has been decoded to an object with
\* the one key "a".
C35_WitnessMerged ==
    /\ Decoded
    /\ KeysOf(jsonValue.decoded.members) = <<<<"a">>, <<"A">>>>
    /\ jsonValue.decoded.t = "object"
    /\ KeysOf(jsonValue.value.members) = <<<<"a">>>>

(***************************************************************************)
(* Specification SpecExpand: the server nodes of the two registered        *)
(* servers are expanded; the servers answer with root listings of several  *)
(* items, with an empty listing, or with an error.                          *)
(***************************************************************************)
ExpandList == GetChildren(RootNodes)
ExpandListed == ChildrenListed
ExpandDone == HandlerDone
ExpandCredentials ==
    /\ ReadCredentials(1)
    /\ UNCHANGED providerVars
ExpandLoginResponse ==
    /\ LoginResponds(1, {200, 401}, {<<CookieA>>})
    /\ UNCHANGED providerVars
ExpandAfterLogin ==
    /\ LoginReturns(1)
    /\ UNCHANGED providerVars
ExpandRequestError ==
    /\ RequestFails(1)
    /\ UNCHANGED providerVars
ExpandResponse ==
    /\ RequestResponds(1, {200, 404}, RootListingTexts \cup {"[]"}, {NoHeaders})
    /\ UNCHANGED providerVars

NextExpand ==
    \/ ExpandList
    \/ ExpandListed
    \/ ExpandDone
    \/ ExpandCredentials
    \/ ExpandLoginResponse
    \/ ExpandAfterLogin
    \/ ExpandRequestError
    \/ ExpandResponse

SpecExpand == InitRegistered /\ [][NextExpand]_vars

\* The virtual scheme of a server URL.
VirtualScheme(server) ==
    IF server.scheme = "https" THEN customUriSchemeSecure ELSE customUriSchemeInsecure

\* getChildren of a server node returns its nodes in this step.
ExpansionReturns ==
    /\ handler.pc = "api"
    /\ handler.op = "getChildren"
    /\ handler.item.isServer
    /\ handler'.pc = "done"
    /\ handler'.error = ""

\* The nodes are the item descriptors of the listing, one each and in the
\* order of the listing.
OnePerDescriptor(nodes, items) ==
    /\ Len(nodes) = Len(items)
    /\ \A i \in 1..Len(items) : nodes[i].itemDescriptor = items[i]

C26_Witness ==
    /\ handler.pc = "done"
    /\ handler.op = "getChildren"
    /\ handler.item = serverNode(ServerB, NoDescriptor)
    /\ Len(handler.nodes) = 3
    /\ handler.nodes[2].itemDescriptor = BareItem
    /\ \A i \in 1..3 : handler.nodes[i].resource.scheme = customUriSchemeInsecure

SessionCookie(name) == IF name = "a" THEN CookieA ELSE CookieB

\* The cookie text the Api keeps of a session cookie.
SessionToken(name) == SplitFirst(SessionCookie(name), ";")

AdvisoryOperations == {"getChildItems", "getFileContent", "actionUrl"}

\* An operation is called with the cache in use.
AdvisoryOperation ==
    /\ call[2].pc = "idle"
    /\ \E op \in AdvisoryOperations :
          Operation(1, op, ServerA, Url(ServerA, FilePath),
                    IF op = "actionUrl" THEN "POST" ELSE "")
    /\ UNCHANGED providerVars

\* Before the same operation is called in slot 2, the cache entry of its
\* server is emptied.
AdvisoryEmptied ==
    /\ call[1].pc # "idle"
    /\ call[2].pc = "idle"
    /\ Truthy(authenticationCookies[ServerB])
    /\ authenticationCookies' = [authenticationCookies EXCEPT ![ServerB] = Undefined]
    /\ UNCHANGED <<secrets, call, providerVars>>

AdvisoryTwin ==
    /\ call[1].pc # "idle"
    /\ ~Truthy(authenticationCookies[ServerB])
    /\ Operation(2, call[1].op, ServerB, Url(ServerB, FilePath), call[1].method)
    /\ UNCHANGED providerVars

\* The stored credentials are read.
AdvisoryCredentials ==
    /\ \E c \in {1, 2} : ReadCredentials(c) /\ call'[c].pc = "loginRequest"
    /\ UNCHANGED providerVars

\* The server accepts the credentials and issues its next session.
AdvisoryLoginResponse ==
    \E c \in {1, 2} :
        /\ LoginResponds(c, {200}, {<<SessionCookie(sessions[call[c].serverUrl].next)>>})
        /\ sessions' = [sessions EXCEPT ![call[c].serverUrl].valid =
                           @ \cup {SessionToken(sessions[call[c].serverUrl].next)}]
        /\ UNCHANGED <<knownServers, treeNodeTable, parentItemLookup, iconData,
                       iconFetches, handler, commands, sharedArrays, given,
                       commandsRun, jsonValue>>

AdvisoryAfterLogin ==
    /\ \E c \in {1, 2} : LoginReturns(c)
    /\ UNCHANGED providerVars

\* The server answers a request by the session it carries.
AdvisoryResponse ==
    /\ \E c \in {1, 2} :
          RequestResponds(c,
                          IF call[c].pc = "request"
                             /\ call[c].cookie \in sessions[call[c].serverUrl].valid
                          THEN {200} ELSE {401},
                          {ListingFile}, {NoHeaders})
    /\ UNCHANGED providerVars

\* The callers have taken the two results.
AdvisoryReturn ==
    /\ call[1].pc = "done"
    /\ call[2].pc = "done"
    /\ call' = [c \in Calls |-> IF c \in {1, 2} THEN IdleCall ELSE call[c]]
    /\ UNCHANGED <<authenticationCookies, secrets, providerVars>>

\* The sessions of the servers expire; the next sessions have another name.
AdvisoryExpire ==
    /\ call[1].pc = "idle"
    /\ call[2].pc = "idle"
    /\ \E s \in Servers : sessions[s].valid # {}
    /\ sessions' = [s \in Servers |->
                       [valid |-> {},
                        next |-> IF sessions[s].next = "a" THEN "b" ELSE "a"]]
    /\ UNCHANGED <<apiVars, knownServers, treeNodeTable, parentItemLookup, iconData,
                   iconFetches, handler, commands, sharedArrays, given,
                   commandsRun, jsonValue>>

NextAdvisory ==
    \/ AdvisoryOperation
    \/ AdvisoryEmptied
    \/ AdvisoryTwin
    \/ AdvisoryCredentials
    \/ AdvisoryLoginResponse
    \/ AdvisoryAfterLogin
    \/ AdvisoryResponse
    \/ AdvisoryReturn
    \/ AdvisoryExpire

SpecAdvisory == InitRegistered /\ [][NextAdvisory]_vars

\* C27: the token cache is advisory: every operation returns with the
\* cache in use what it returns with the cache emptied before it; and the
\* cache holds at most one token, a text, for each server URL.
C27_CacheAdvisory ==
    /\ (call[1].pc = "done" /\ call[2].pc = "done") => call[1].result = call[2].result
    /\ \A s \in Servers :
          authenticationCookies[s] \in {Undefined, SessionToken("a"), SessionToken("b")}

(***************************************************************************)
(* Specification SpecRace: overlapping session acquisitions.  Every slot   *)
(* may hold a listing request of either server at the same time; each      *)
(* server issues sessions of its own, or refuses the login.                 *)
(***************************************************************************)
\* ".ROCK=c" and ".ROCK=d;q"
CookieC == <<".", "R", "O", "C", "K", "=", "c">>
CookieD == <<".", "R", "O", "C", "K", "=", "d", ";", "q">>

\* The set-cookie headers of the login responses of a server.
RaceSetCookies(server) ==
    IF server = ServerA THEN {NoHeader, <<CookieA>>, <<CookieOther, CookieB>>}
    ELSE {NoHeader, <<CookieC>>, <<CookieD>>}

\* The tokens a server issues.
IssuedTokens(server) ==
    {requestAuthorizationCookie(200, setCookie) :
        setCookie \in RaceSetCookies(server) \ {NoHeader}}

RaceList ==
    /\ \E c \in Calls, server \in Servers :
          Operation(c, "getChildItems", server, getApiUrl(server, ChildItemsPath(<<>>)), "")
    /\ UNCHANGED providerVars
RaceCredentials ==
    /\ \E c \in Calls : ReadCredentials(c)
    /\ UNCHANGED providerVars
RaceLoginResponse ==
    /\ \E c \in Calls : LoginResponds(c, {200, 401}, RaceSetCookies(call[c].serverUrl))
    /\ UNCHANGED providerVars
RaceLoginError ==
    /\ \E c \in Calls : LoginFails(c)
    /\ UNCHANGED providerVars
RaceAfterLogin ==
    /\ \E c \in Calls : LoginReturns(c)
    /\ UNCHANGED providerVars
RaceResponse ==
    /\ \E c \in Calls : RequestResponds(c, {200}, {ListingFile}, {NoHeaders})
    /\ UNCHANGED providerVars
RaceFinish ==
    /\ \E c \in Calls : Return(c)
    /\ UNCHANGED providerVars

NextRace ==
    \/ RaceList
    \/ RaceCredentials
    \/ RaceLoginResponse
    \/ RaceLoginError
    \/ RaceAfterLogin
    \/ RaceResponse
    \/ RaceFinish

SpecRace == InitRegistered /\ [][NextRace]_vars

\* A caller that missed the cache and whose own login succeeded resolves
\* to a token its server has issued.
C28_OwnLoginResolves ==
    \A c \in Calls :
        (call[c].pc \in {"request", "done"} /\ ~call[c].cached
         /\ call[c].loginResult = "true")
            => call[c].cookie \in IssuedTokens(call[c].serverUrl)

\* The login of slot c completes in this step.
LoginCompletes(c) ==
    /\ call[c].pc \in {"credentials", "loginRequest"}
    /\ call'[c].pc = "loginReturn"

\* The last write wins: a login that completes with success leaves its own
\* token in the cache entry of its server; a login that fails leaves the
\* cache as it is.
C28_LastWriteWins ==
    \A c \in Calls :
        LoginCompletes(c) =>
            IF call'[c].loginResult = "true"
            THEN /\ authenticationCookies'[call[c].serverUrl] =
                       requestAuthorizationCookie(call'[c].loginResponse.status,
                                                  call'[c].loginResponse.setCookie)
                 /\ authenticationCookies'[call[c].serverUrl]
                       \in IssuedTokens(call[c].serverUrl)
                 /\ \A s \in Servers \ {call[c].serverUrl} :
                       authenticationCookies'[s] = authenticationCookies[s]
            ELSE authenticationCookies' = authenticationCookies

\* C28: under every interleaving of session acquisitions that miss the
\* cache, a caller whose own login succeeded resolves to a token issued by
\* the server for its URL, the cache holds the token of the successful
\* login that completed last, and a failing login neither removes nor
\* replaces a token.
C28_ConcurrentLogins ==
    /\ []C28_OwnLoginResolves
    /\ [][C28_LastWriteWins]_vars

\* Two acquisitions for https://a.test have both missed the cache: the
\* first has resolved to the session "a", the login of the second has
\* completed after it with the session "b", which the cache now holds.
C28_Witness ==
    \E c1, c2 \in Calls :
        /\ c1 # c2
        /\ call[c1].serverUrl = ServerA /\ call[c2].serverUrl = ServerA
        /\ ~call[c1].cached /\ ~call[c2].cached
        /\ call[c1].pc = "request" /\ call[c1].cookie = SessionToken("a")
        /\ call[c2].pc = "loginReturn" /\ call[c2].loginResult = "true"
        /\ authenticationCookies[ServerA] = SessionToken("b")

\* A login for https://a.test has failed beside a successful one; the cache
\* holds the token of the successful one.
C28_WitnessFailure ==
    \E c1, c2 \in Calls :
        /\ c1 # c2
        /\ call[c1].serverUrl = ServerA /\ call[c2].serverUrl = ServerA
        /\ call[c1].pc = "loginReturn" /\ call[c1].loginResult = "true"
        /\ call[c2].pc = "loginReturn" /\ call[c2].loginResult = "false"
        /\ authenticationCookies[ServerA] \in IssuedTokens(ServerA)

(***************************************************************************)
(* Specification SpecLeaves: listing every kind of node.  Both servers are *)
(* registered; getChildren is called for their root nodes and for the      *)
(* nodes a listing makes: a folder with a path, and items whose uri is     *)
(* missing, null or empty.                                                 *)
(***************************************************************************)
\* The item descriptors of listed items.
LeafDescriptors ==
    {BareItem, [BareItem EXCEPT !.uri = Null], [BareItem EXCEPT !.uri = <<>>]}
ListedDescriptors == LeafDescriptors \cup {FolderItem}

\* The nodes getChildren has made of them.
ListedNodes ==
    {childNodes(root, <<itemDescriptor>>, <<"u", "1">>)[1] :
        root \in RootNodes, itemDescriptor \in ListedDescriptors}

LeavesList == GetChildren(RootNodes \cup ListedNodes)
LeavesListed == ChildrenListed
LeavesDone == HandlerDone
LeavesCredentials ==
    /\ ReadCredentials(1)
    /\ UNCHANGED providerVars
LeavesLoginResponse ==
    /\ LoginResponds(1, {200, 401}, {<<CookieA>>})
    /\ UNCHANGED providerVars
LeavesAfterLogin ==
    /\ LoginReturns(1)
    /\ UNCHANGED providerVars
LeavesRequestError ==
    /\ RequestFails(1)
    /\ UNCHANGED providerVars
LeavesResponse ==
    /\ RequestResponds(1, {200, 404}, {ListingMixed, "[]"}, {NoHeaders})
    /\ UNCHANGED providerVars

NextLeaves ==
    \/ LeavesList
    \/ LeavesListed
    \/ LeavesDone
    \/ LeavesCredentials
    \/ LeavesLoginResponse
    \/ LeavesAfterLogin
    \/ LeavesRequestError
    \/ LeavesResponse

SpecLeaves == InitRegistered /\ [][NextLeaves]_vars

\* getChildren is running, or has returned, for a node that is no server
\* root and has no path.
ListsLeaf(h) ==
    /\ h.op = "getChildren"
    /\ ~h.item.isServer
    /\ h.item.itemDescriptor.uri \in {Undefined, Null, <<>>}

\* getChildren is running for a server root without a path.
ListsRoot(h) ==
    /\ h.op = "getChildren"
    /\ h.item.isServer
    /\ h.item.itemDescriptor.uri \in {Undefined, Null, <<>>}

\* The root listing endpoint of a server.
RootEndpoint(server) == getApiUrl(server, RootItemsPath)

\* The listing of a node without a path has returned the empty list and
\* has started no call of the Api.
C30_LeafIsEmpty ==
    ListsLeaf(handler) =>
        /\ handler.pc = "done"
        /\ handler.nodes = <<>> /\ handler.error = ""
        /\ \A c \in Calls : call[c] = IdleCall

\* The listing of a server root addresses the root listing endpoint of
\* that server, in its call and in every request it has sent.
C30_RootEndpoint ==
    (ListsRoot(handler) /\ handler.pc = "api") =>
        /\ call[1].op = "getChildItems"
        /\ call[1].serverUrl = handler.item.serverUrl
        /\ call[1].url = RootEndpoint(handler.item.serverUrl)
        /\ \A i \in 1..Len(call[1].requests) :
              /\ call[1].requests[i].method = "GET"
              /\ call[1].requests[i].url = RootEndpoint(handler.item.serverUrl)

\* The steps of the listing of a node without a path leave the
\* parent-lookup table and the calls as they are.
C30_LeafAddsNothing ==
    (ListsLeaf(handler) \/ ListsLeaf(handler')) =>
        /\ parentItemLookup' = parentItemLookup
        /\ call' = call

\* C30: listing a node that is no server root and has no non-empty path
\* returns the empty list, sends no request and adds nothing to the
\* parent-lookup table; listing a server root with an empty path requests
\* the root listing endpoint of that server.
C30_LeavesAndRoots ==
    /\ [](C30_LeafIsEmpty /\ C30_RootEndpoint)
    /\ [][C30_LeafAddsNothing]_vars

\* C30 witness: after a listing has filled the parent-lookup table, the
\* item of https://a.test whose uri is the empty string was listed and
\* gave the empty list.
C30_Witness ==
    /\ ListsLeaf(handler) /\ handler.pc = "done"
    /\ handler.item.itemDescriptor.uri = <<>>
    /\ DOMAIN parentItemLookup # {}

\* The request of the listing of the root of http://b.test is in flight.
C30_WitnessRoot ==
    /\ ListsRoot(handler) /\ handler.pc = "api"
    /\ handler.item.serverUrl = ServerB
    /\ call[1].pc = "request" /\ Len(call[1].requests) = 1

(***************************************************************************)
(* Specification SpecResolve: the capability URLs of the actions.  Every   *)
(* action is invoked on items of both servers whose capability URLs are    *)
(* whole URLs, paths with a leading "/" or relative paths.                 *)
(***************************************************************************)
\* "http://b.test/x", "/v" and "v"
CapabilityUrls ==
    {Text("http") \o SchemeSeparator \o Text("b.test") \o <<"/", "x">>,
     <<"/", "v">>,
     <<"v">>}

\* A folder whose capabilities all have the URL url.
ResolveItem(url) ==
    [FolderItem EXCEPT !.buildUri = url, !.deleteUri = url, !.newFileUri = url,
                       !.newFolderUri = url, !.uploadFileUri = url,
                       !.uploadFolderUri = url]

ResolveItems ==
    {childNodes(root, <<ResolveItem(url)>>, <<"u", "1">>)[1] :
        root \in RootNodes, url \in CapabilityUrls}

ResolveEvent == ActionEvent(ActionKinds, ResolveItems)
ResolveResponse ==
    /\ RequestResponds(1, {200}, {ActionDone}, {NoHeaders})
    /\ UNCHANGED providerVars

NextResolve ==
    \/ ResolveEvent
    \/ ActionsDialog
    \/ ActionsSettled
    \/ ActionsTimer
    \/ ActionsDone
    \/ ActionsFileRead
    \/ ActionsReadDirectory
    \/ ActionsDirectoryEnds
    \/ ActionsReadError
    \/ ActionsCredentials
    \/ ActionsLoginResponse
    \/ ActionsAfterLogin
    \/ ActionsRequestError
    \/ ResolveResponse

SpecResolve == InitRegistered /\ [][NextResolve]_vars

\* The absolute web URL of a capability URL of a server, as specified.
AbsoluteWebUrl(serverUrl, url) ==
    IF Includes(url, SchemeSeparator) THEN url
    ELSE IF StartsWith(url, <<"/">>) THEN serverUrl \o url
    ELSE serverUrl \o <<"/">> \o url

\* An action that has passed its guard has resolved its capability URL.
Resolving ==
    /\ handler.op \in ActionKinds
    /\ handler.pc \in {"dialog", "api", "timer"}

\* C32: every capability URL used by an action is resolved to an absolute
\* web URL: a URL with "://" is used unchanged, a URL with a leading "/"
\* becomes the server URL followed by it, and a relative URL becomes the
\* server URL, "/" and that URL; the request of the action goes there.
C32_AbsoluteWebUrl ==
    Resolving =>
        LET expected == AbsoluteWebUrl(ServerUrlText(handler.serverUrl), handler.url)
        IN /\ handler.webUrl = expected
           /\ handler.pc = "api" => call[1].url = WebUrl(expected)

\* The capability URLs that are whole URLs or begin with "/" are resolved
\* as specified.
C32_RootedUrls ==
    (Resolving /\ (Includes(handler.url, SchemeSeparator)
                   \/ StartsWith(handler.url, <<"/">>))) =>
        handler.webUrl = AbsoluteWebUrl(ServerUrlText(handler.serverUrl), handler.url)

(***************************************************************************)
(* Specification SpecDispatch: the context value as dispatch key.  One     *)
(* node is rendered, a file, folder or server with any combination of      *)
(* capabilities, and the event of any menu entry arrives for it.           *)
(***************************************************************************)
RemoteKinds == {"view", "edit"}

\* The URL onRemoteView and onRemoteEdit test and resolve.
RemoteUri(kind, itemDescriptor) ==
    IF kind = "view" THEN itemDescriptor.remoteViewUri
    ELSE itemDescriptor.remoteEditUri

\* An event of "magnus.remoteView" or "magnus.remoteEdit" arrives: the
\* whole handler, which opens the resolved URL in the browser.
RemoteEvent(kinds, items) ==
    /\ handler.pc = "idle"
    /\ \E kind \in kinds, item \in items :
          LET started == [IdleHandler EXCEPT !.pc = "done", !.op = kind,
                                             !.item = item,
                                             !.serverUrl = item.serverUrl]
              remote == RemoteUri(kind, item.itemDescriptor)
          IN handler' =
                IF ~Truthy(remote) THEN started
                ELSE [started EXCEPT
                         !.url = remote,
                         !.webUrl = getFullyQualifiedUrl(ServerUrlText(item.serverUrl),
                                                         remote)]
    /\ UNCHANGED <<apiVars, tableVars>>

\* The text a menu entry of package.json looks for in the context value.
MenuPattern(kind) ==
    <<"_">> \o (CASE kind = "build" -> CanBuildFlag
                  [] kind = "newFile" -> CanNewFileFlag
                  [] kind = "newFolder" -> CanNewFolderFlag
                  [] kind = "upload" -> CanUploadFlag
                  [] kind = "uploadFolder" -> CanUploadFolderFlag
                  [] kind = "delete" -> CanDeleteFlag
                  [] kind = "view" -> CanViewFlag
                  [] OTHER -> CanEditFlag)

\* Descriptors with every combination of capabilities, and descriptors
\* with one capability null or empty beside the others.
DispatchDescriptors ==
    {[NoDescriptor EXCEPT
         !.uri = ApiPrefix \o <<"/", "w">>,
         !.remoteViewUri = remoteViewUri, !.remoteEditUri = remoteEditUri,
         !.deleteUri = deleteUri, !.newFileUri = newFileUri,
         !.newFolderUri = newFolderUri, !.uploadFileUri = uploadFileUri,
         !.uploadFolderUri = uploadFolderUri, !.buildUri = buildUri] :
        remoteViewUri \in Optional, remoteEditUri \in Optional,
        deleteUri \in Optional, newFileUri \in Optional,
        newFolderUri \in Optional, uploadFileUri \in Optional,
        uploadFolderUri \in Optional, buildUri \in Optional}
    \cup
    {[NoDescriptor EXCEPT
         !.id = <<"7">>, !.guid = <<"g">>, !.copyValue = <<"c">>,
         !.remoteViewUri = IF field = 1 THEN falsy ELSE other,
         !.remoteEditUri = IF field = 2 THEN falsy ELSE other,
         !.deleteUri = IF field = 3 THEN falsy ELSE other,
         !.newFileUri = IF field = 4 THEN falsy ELSE other,
         !.newFolderUri = IF field = 5 THEN falsy ELSE other,
         !.uploadFileUri = IF field = 6 THEN falsy ELSE other,
         !.uploadFolderUri = IF field = 7 THEN falsy ELSE other,
         !.buildUri = IF field = 8 THEN falsy ELSE other] :
        field \in 1..8, falsy \in {Null, <<>>},
        other \in {Text("http") \o SchemeSeparator \o Text("b.test") \o <<"/", "x">>}}

DispatchNodes ==
    {TreeNode(ServerA,
              getResourceFromWebUrl(ServerUrlText(ServerA), d.uri, <<"u", "1">>),
              [d EXCEPT !.isFolder = isFolder], isServer) :
        d \in DispatchDescriptors, isFolder \in BOOLEAN, isServer \in BOOLEAN}

DispatchRender ==
    /\ treeNodeTable = <<>>
    /\ GetTreeItem(DispatchNodes)
DispatchAction == ActionEvent(ActionKinds, Rendered)
DispatchRemote == RemoteEvent(RemoteKinds, Rendered)

NextDispatch ==
    \/ DispatchRender
    \/ DispatchAction
    \/ DispatchRemote
    \/ MenusDialog
    \/ MenusSettled
    \/ MenusTimer
    \/ MenusDone
    \/ ActionsFileRead
    \/ ActionsReadDirectory
    \/ ActionsDirectoryEnds
    \/ MenusCredentials
    \/ MenusLoginResponse
    \/ MenusAfterLogin
    \/ MenusResponse

SpecDispatch == InitRegistered /\ [][NextDispatch]_vars

\* The capability URL behind a menu entry.
MenuCapability(kind, itemDescriptor) ==
    IF kind \in RemoteKinds THEN RemoteUri(kind, itemDescriptor)
    ELSE CapabilityUri(kind, itemDescriptor)

\* The capability is present: not missing, not null and not empty.
Present(uri) == uri \notin {<<"undefined">>, <<"null">>, <<>>}

\* The node with every field reduced to whether it is present: nothing but
\* is-server, is-folder and the presence of the fields remains.
PresenceOf(field) == IF Present(field) THEN <<"x">> ELSE <<"undefined">>
PresenceOnly(node) ==
    TreeNode(ServerA, NoUri,
             [NoDescriptor EXCEPT
                 !.isFolder = node.itemDescriptor.isFolder,
                 !.id = PresenceOf(node.itemDescriptor.id),
                 !.guid = PresenceOf(node.itemDescriptor.guid),
                 !.copyValue = PresenceOf(node.itemDescriptor.copyValue),
                 !.remoteViewUri = PresenceOf(node.itemDescriptor.remoteViewUri),
                 !.remoteEditUri = PresenceOf(node.itemDescriptor.remoteEditUri),
                 !.deleteUri = PresenceOf(node.itemDescriptor.deleteUri),
                 !.newFileUri = PresenceOf(node.itemDescriptor.newFileUri),
                 !.newFolderUri = PresenceOf(node.itemDescriptor.newFolderUri),
                 !.uploadFileUri = PresenceOf(node.itemDescriptor.uploadFileUri),
                 !.uploadFolderUri = PresenceOf(node.itemDescriptor.uploadFolderUri),
                 !.buildUri = PresenceOf(node.itemDescriptor.buildUri)],
             node.isServer)

\* The handler of the event has gone past its guard: it has resolved the
\* capability URL.
PastGuard == handler.webUrl # <<>>

\* C33: the context value of a node depends only on is-server, is-folder
\* and the presence of the fields; the menu pattern of each action matches
\* it if and only if the capability URL of that action is present and not
\* empty; and the handler of an action goes past its guard exactly when
\* the pattern of its menu entry matches.
C33_DispatchKey ==
    /\ handler.op = "getTreeItem" =>
          /\ handler.contextValue = getContextValue(PresenceOnly(handler.item))
          /\ \A kind \in ActionKinds \cup RemoteKinds :
                MenuMatches(handler.contextValue, MenuPattern(kind))
                   <=> Present(MenuCapability(kind, handler.item.itemDescriptor))
    /\ handler.op \in ActionKinds \cup RemoteKinds =>
          (PastGuard <=> MenuMatches(getContextValue(handler.item),
                                     MenuPattern(handler.op)))

\* C33 witness: the upload-folder capability alone is present on a rendered
\* folder: "_canUploadFolder_" matches, and an upload event for the node
\* has returned at its guard.
C33_Witness ==
    /\ handler.op = "upload" /\ handler.pc = "done" /\ ~PastGuard
    /\ Present(handler.item.itemDescriptor.uploadFolderUri)
    /\ ~Present(handler.item.itemDescriptor.uploadFileUri)
    /\ MenuMatches(getContextValue(handler.item), MenuPattern("uploadFolder"))
    /\ ~MenuMatches(getContextValue(handler.item), MenuPattern("upload"))

\* The view of an item whose other capabilities are all present but whose
\* remoteViewUri is empty has returned at its guard; an edit has gone on.
C33_WitnessRemote ==
    /\ handler.op = "edit" /\ PastGuard
    /\ handler.item.itemDescriptor.remoteViewUri = <<>>

(***************************************************************************)
(* Specification SpecOpen: the command of a tree item.  One node of either *)
(* server is rendered: a file, folder or server node, with or without a    *)
(* logical path, whose disableOpenFile is true, false, null or missing.    *)
(***************************************************************************)
OpenNodes ==
    {TreeNode(server,
              getResourceFromWebUrl(ServerUrlText(server), uri, <<"u", "1">>),
              [NoDescriptor EXCEPT !.uri = uri, !.isFolder = isFolder,
                                   !.disableOpenFile = disableOpenFile],
              isServer) :
        server \in Servers, uri \in {Undefined, <<>>, ApiPrefix \o <<"/", "f">>},
        isFolder \in BOOLEAN, isServer \in BOOLEAN,
        disableOpenFile \in {"true", "false", "null", "undefined"}}

OpenRender ==
    /\ treeNodeTable = <<>>
    /\ GetTreeItem(OpenNodes)
OpenDone == HandlerDone

NextOpen ==
    \/ OpenRender
    \/ OpenDone

SpecOpen == InitRegistered /\ [][NextOpen]_vars

\* getTreeItem has built the tree item of a node.
ItemBuilt == handler.op = "getTreeItem" /\ handler.pc = "done"

\* C34: a tree item built from a descriptor whose disableOpenFile is true
\* carries no open-file command; a non-folder item whose disableOpenFile is
\* not true and which has a logical path carries the open-file command for
\* its own virtual identifier; a folder item never carries one.
C34_OpenFileCommand ==
    ItemBuilt =>
        LET d == handler.item.itemDescriptor
        IN /\ d.disableOpenFile = "true" => handler.command = NoCommand
           /\ (~d.isFolder /\ d.disableOpenFile # "true" /\ Truthy(d.uri)) =>
                 handler.command = OpenFile(handler.item.resource)
           /\ d.isFolder => handler.command = NoCommand

\* The items whose disableOpenFile is not true carry the command the claim
\* states.
C34_NotDisabled ==
    (ItemBuilt /\ handler.item.itemDescriptor.disableOpenFile # "true") =>
        LET d == handler.item.itemDescriptor
        IN /\ (~d.isFolder /\ Truthy(d.uri)) =>
                 handler.command = OpenFile(handler.item.resource)
           /\ d.isFolder => handler.command = NoCommand

\* The keys of the parent-lookup table recorded for a parent, and the keys
\* of the nodes a listing has returned.
ChildrenRecorded(parent) ==
    {k \in DOMAIN parentItemLookup : parentItemLookup[k] = parent}
KeysReturned == {NodeKey(handler.nodes[i]) : i \in 1..Len(handler.nodes)}

\* getChildren has returned the children of a listing.
ListingReturned ==
    handler.op = "getChildren" /\ handler.pc = "done" /\ handler.error = ""

\* C36: after a parent is listed again the parent-lookup table holds
\* entries for exactly the children of that latest listing: the entries of
\* earlier listings of the parent are replaced, not accumulated.
C36_EntriesOfLatestListing ==
    ListingReturned => ChildrenRecorded(handler.item) = KeysReturned

\* The table never loses a key, and the children of the latest listing are
\* recorded under their parent.
C36_EntriesAccumulate ==
    /\ DOMAIN parentItemLookup \subseteq DOMAIN parentItemLookup'
    /\ (handler'.op = "getChildren" /\ handler'.pc = "done" /\ handler'.error = ""
        /\ handler.pc = "api") =>
          \A i \in 1..Len(handler'.nodes) :
             /\ NodeKey(handler'.nodes[i]) \in DOMAIN parentItemLookup'
             /\ parentItemLookup'[NodeKey(handler'.nodes[i])] = handler'.item

C36_Accumulates == [][C36_EntriesAccumulate]_vars

(***************************************************************************)
(* Specification SpecTokens: sessions of two servers.  An action is        *)
(* invoked on items of both servers whose capability URLs are a path on    *)
(* the server of the item or a whole URL of either server; each server     *)
(* issues sessions of its own, or refuses the login.                        *)
(***************************************************************************)
\* "https://a.test/x", "http://b.test/x" and "/v"
TokenUrls ==
    {ServerUrlText(ServerA) \o <<"/", "x">>,
     ServerUrlText(ServerB) \o <<"/", "x">>,
     <<"/", "v">>}

TokenItems ==
    {childNodes(root, <<ResolveItem(url)>>, <<"u", "1">>)[1] :
        root \in RootNodes, url \in TokenUrls}

TokensEvent == ActionEvent(ActionKinds, TokenItems)
TokensLoginResponse ==
    /\ LoginResponds(1, {200, 401}, RaceSetCookies(call[1].serverUrl))
    /\ UNCHANGED providerVars

NextTokens ==
    \/ TokensEvent
    \/ ActionsDialog
    \/ ActionsSettled
    \/ ActionsTimer
    \/ ActionsDone
    \/ ActionsFileRead
    \/ ActionsReadDirectory
    \/ ActionsDirectoryEnds
    \/ ActionsReadError
    \/ ActionsCredentials
    \/ TokensLoginResponse
    \/ ActionsAfterLogin
    \/ ActionsRequestError
    \/ ResolveResponse

SpecTokens == InitRegistered /\ [][NextTokens]_vars

\* The server a request is sent to: the scheme and the authority of its URL.
Target(request) == [scheme |-> request.url.scheme, authority |-> request.url.authority]

\* The token a request carries was issued by the server it is sent to.
OwnToken(request) ==
    /\ Target(request) \in Servers
    /\ request.cookie \in IssuedTokens(Target(request))
    /\ \A other \in Servers \ {Target(request)} :
          request.cookie \notin IssuedTokens(other)

\* C38: a session token obtained by logging in to a server is attached
\* only to requests whose scheme and authority are that server's, also
\* when an item of one server carries a whole capability URL of the other
\* server: every request carries a token issued by the server it is sent
\* to, every login request goes to the login endpoint of the server of the
\* action's URL, and the cache holds for a server only tokens it issued.
C38_TokenStaysWithServer ==
    /\ \A s \in Servers :
          authenticationCookies[s] \in {Undefined} \cup IssuedTokens(s)
    /\ \A c \in Calls :
          /\ \A i \in 1..Len(call[c].requests) : OwnToken(call[c].requests[i])
          /\ \A i \in 1..Len(call[c].loginRequests) :
                /\ call[c].loginRequests[i].url = getApiUrl(Target(call[c]), LoginPath)
                /\ call[c].loginRequests[i].username = StoredCredentials(Target(call[c])).username
                /\ call[c].loginRequests[i].password = StoredCredentials(Target(call[c])).password

\* C38 witness: while a token of the https server is cached, the action of
\* an item of that server whose capability URL is "http://b.test/x" has
\* sent its request to b.test with a token b.test issued.
C38_Witness ==
    /\ handler.pc = "api" /\ handler.serverUrl = ServerA
    /\ handler.webUrl = ServerUrlText(ServerB) \o <<"/", "x">>
    /\ authenticationCookies[ServerA] \in IssuedTokens(ServerA)
    /\ call[1].requests # <<>>
    /\ Target(call[1].requests[1]) = ServerB
    /\ call[1].requests[1].cookie \in IssuedTokens(ServerB)

(***************************************************************************)
(* Specification SpecIconRace: overlapping calls of getIcon.  The tree     *)
(* view asks for the items of several nodes at a time, so a getIcon may    *)
(* start while the downloads of earlier ones are awaited; the pending      *)
(* entries of iconFetches are the calls waiting at their await, and        *)
(* handler shows the getIcon that has just ended.                          *)
(***************************************************************************)
RaceIconUrls == {LightIconText, ServerUrlText(ServerA) \o DarkIconText}

\* IconCache.getIcon after its download has ended with the status: the
\* cache it leaves.
getIconStores(data, uri, status) ==
    IF ~validateStatus(status) THEN data
    ELSE IF status # 200 THEN Put(data, {uri}, Null)
    ELSE Put(data, {uri}, DataUriPrefix \o Base64(IconBody))

\* getIcon(uri) is called: it returns the entry of the cache when there is
\* one, and otherwise awaits its download.
IconRaceCall ==
    /\ handler.pc = "idle"
    /\ \E uri \in RaceIconUrls :
          IF IconCached(iconData, uri)
          THEN /\ handler' = [IdleHandler EXCEPT !.pc = "done", !.op = "getIcon",
                                                 !.url = uri, !.light = iconData[uri]]
               /\ UNCHANGED iconFetches
          ELSE /\ Len(iconFetches) < MaxFetches
               /\ iconFetches' = Append(iconFetches, [uri |-> uri, status |-> 0])
               /\ UNCHANGED handler
    /\ UNCHANGED <<apiVars, knownServers, treeNodeTable, parentItemLookup, iconData,
                   commandVars>>

\* The download of one of the waiting calls ends: the rest of that getIcon.
IconRaceArrives(statuses) ==
    /\ handler.pc = "idle"
    /\ \E i \in 1..Len(iconFetches), status \in statuses :
          /\ iconFetches[i].status = 0
          /\ LET uri == iconFetches[i].uri
                 data == getIconStores(iconData, uri, status)
             IN /\ iconData' = data
                /\ iconFetches' = [iconFetches EXCEPT ![i].status = status]
                /\ handler' = [IdleHandler EXCEPT
                                  !.pc = "done", !.op = "getIcon", !.url = uri,
                                  !.index = i,
                                  !.light = IF validateStatus(status) THEN data[uri]
                                            ELSE <<>>,
                                  !.error = IF validateStatus(status) THEN ""
                                            ELSE StatusError(status)]
    /\ UNCHANGED <<apiVars, knownServers, treeNodeTable, parentItemLookup, commandVars>>

IconRaceResponse == IconRaceArrives(IconStatuses)
IconRaceRequestError == IconRaceArrives({-1})
IconRaceDone == HandlerDone

NextIconRace ==
    \/ IconRaceCall
    \/ IconRaceResponse
    \/ IconRaceRequestError
    \/ IconRaceDone

SpecIconRace == Init /\ [][NextIconRace]_vars

\* The entries of the cache stay as they are in a step.
EntriesKept ==
    \A uri \in DOMAIN iconData :
        uri \in DOMAIN iconData' /\ iconData'[uri] = iconData[uri]

\* A getIcon that started when the cache held an entry for its URL has
\* returned that entry without a download.
ReturnsEntry ==
    (handler'.op = "getIcon" /\ handler.pc = "idle"
     /\ IconCached(iconData, handler'.url) /\ handler'.index = 0) =>
        /\ handler'.light = iconData[handler'.url]
        /\ handler'.error = ""
        /\ iconFetches' = iconFetches
        /\ iconData' = iconData

\* C39: once the cache holds an entry (image or tombstone) for a URL the
\* entry never changes, under every interleaving of overlapping getIcon
\* calls for the URL, and every getIcon that starts after the entry exists
\* returns it without a network request.
C39_EntryNeverChanges == [][EntriesKept /\ ReturnsEntry]_vars

\* Every getIcon that starts after the entry exists returns it without a
\* network request and leaves the cache as it is; no entry is ever removed,
\* and an entry changes only when a download ends that was started before
\* the entry existed.
C39_EntryKeptByLaterCalls ==
    [][/\ ReturnsEntry
       /\ DOMAIN iconData \subseteq DOMAIN iconData'
       /\ ~EntriesKept => /\ handler'.index > 0
                          /\ iconFetches[handler'.index].status = 0
                          /\ validateStatus(iconFetches'[handler'.index].status)]_vars

(***************************************************************************)
(* Specification SpecFailures: item actions whose remote call fails.  As   *)
(* SpecActions, with the server answering the request of an action with    *)
(* 200, 403, 404 or 500.                                                    *)
(***************************************************************************)
FailureStatuses == {200, 403, 404, 500}

FailuresResponse ==
    /\ RequestResponds(1, FailureStatuses,
                       IF call[1].op = "getChildItems"
                       THEN {ListingCapable, ListingFile}
                       ELSE {ActionDone, "<html>"},
                       {NoHeaders})
    /\ UNCHANGED providerVars

NextFailures ==
    \/ ActionsList
    \/ ActionsListed
    \/ ActionsEvent
    \/ ActionsDialog
    \/ ActionsSettled
    \/ ActionsTimer
    \/ ActionsDone
    \/ ActionsFileRead
    \/ ActionsReadDirectory
    \/ ActionsDirectoryEnds
    \/ ActionsReadError
    \/ ActionsCredentials
    \/ ActionsLoginResponse
    \/ ActionsAfterLogin
    \/ ActionsRequestError
    \/ FailuresResponse

SpecFailures == InitRegistered /\ [][NextFailures]_vars

\* The Api method of an action has thrown and the handler has not yet
\* caught the error.
CallFailed ==
    /\ ApiSettled /\ handler.op \in ActionKinds
    /\ call[1].result.kind = "error"

\* The call of the action has stored a token: its login returned true.
StoredToken == call[1].loginResult = "true"

\* The catch block of the handler: the message of the error is shown, the
\* handler ends without a refresh, a progress report or an exception, and
\* the token cache and the tables stay as they are.
FailureCaught ==
    CallFailed =>
        /\ handler'.pc = "done"
        /\ handler'.messages = Append(handler.messages, call[1].result.message)
        /\ handler'.fired = handler.fired
        /\ handler'.progress = handler.progress
        /\ handler'.thrown = NoThrow
        /\ UNCHANGED <<authenticationCookies, secrets, treeNodeTable, parentItemLookup,
                       knownServers>>

\* An action changes the tables in no step, and the token cache only in
\* the step in which its call's login returns true, which stores the token
\* of that login for the server of the call.
ActionWrites ==
    handler.op \in ActionKinds =>
        /\ UNCHANGED <<treeNodeTable, parentItemLookup, knownServers>>
        /\ authenticationCookies' # authenticationCookies =>
              /\ call[1].pc = "loginRequest" /\ call'[1].loginResult = "true"
              /\ \A s \in Servers \ {call[1].serverUrl} :
                    authenticationCookies'[s] = authenticationCookies[s]

\* An action has ended with an error: one message, the message of the
\* error, has been shown and nothing else has happened.
EndedWithError ==
    (handler.op \in ActionKinds /\ handler.pc = "done" /\ handler.error # "") =>
        /\ handler.messages = <<handler.error>>
        /\ handler.fired = <<>> /\ handler.progress = <<>>
        /\ handler.thrown = NoThrow

\* C40: when the remote call of a build, new-file, new-folder, upload,
\* upload-folder or delete action fails, the handler shows the message of
\* the error, fires no parent refresh, leaves the token cache and the
\* lookup tables unchanged and propagates no exception.
C40_FailureLeavesAllUnchanged ==
    /\ [](CallFailed => ~StoredToken)
    /\ []EndedWithError
    /\ [][FailureCaught /\ ActionWrites]_vars

\* C40 (amended): as C40, but the token cache is left unchanged only from
\* the failure on: a call that had to log in has stored the token of its
\* server before its request failed, and the token stays cached.
C40_FailureCaught ==
    /\ []EndedWithError
    /\ [][FailureCaught /\ ActionWrites]_vars

\* C40 witness: the delete action of a listed item has ended with the
\* message of a 404 answer and without a refresh, and the token of the
\* server is cached.
C40_Witness ==
    /\ handler.op = "delete" /\ handler.pc = "done"
    /\ handler.error = NotFound /\ handler.messages = <<NotFound>>
    /\ handler.fired = <<>>
    /\ NodeKey(handler.item) \in DOMAIN parentItemLookup
    /\ Truthy(authenticationCookies[ServerA])

\* C40 witness of the stored token: the call of an action has logged in
\* and its request has then been answered with 403.
C40_WitnessLogin ==
    /\ CallFailed /\ StoredToken
    /\ call[1].result = Throw(AccessDenied)
    /\ Truthy(authenticationCookies[ServerA])
====
